---- MODULE Spec2Model ----
(***************************************************************************)
(* PaperMirror: the sentence-edits rewrite pipeline.                       *)
(*                                                                         *)
(*   - utils/rewrite/tokenize.ts : tokenizeDocument, rebuildText,          *)
(*                                 validateReplacements                    *)
(*   - services/workflowService.ts : processBatchWithRetry,                *)
(*                                 rewriteChunkWithSentenceEdits,          *)
(*                                 runSentenceEditsWorkflow,               *)
(*                                 runFullTextWorkflow                     *)
(*                                                                         *)
(* A JavaScript string is a sequence of UTF-16 code units; a code unit is  *)
(* a TLA+ string.  Code units outside ASCII are written by their code      *)
(* point: "U3002" is the ideographic full stop.                            *)
(***************************************************************************)
EXTENDS Integers, Sequences, FiniteSets, TLC

\* ------------------------------------------------------------------------
\* Code units
\* ------------------------------------------------------------------------
LF == "\n"
CR == "\r"
SP == " "
TAB == "\t"
HASH == "#"
CJKStop == "U3002"
CJKQuestion == "UFF1F"
CJKBang == "UFF01"
CJKComma == "UFF0C"
CJKSemicolon == "UFF1B"
CJKEnumComma == "U3001"

\* the code units String.prototype.trim and the regex class \s remove
WhiteSpace == {SP, TAB, LF, CR}
\* [。？！] of splitBySentenceEnders
SentenceEnders == {CJKStop, CJKQuestion, CJKBang}
\* [，；] of splitByClausePunctuation
ClausePunctuation == {CJKComma, CJKSemicolon}
\* breakChars of forceSplit, in the order they are tried
breakChars == <<CJKComma, CJKEnumComma, CJKSemicolon, SP, ",", ";">>
\* the token separator text '\n\n'
ParagraphSeparator == <<LF, LF>>

\* batchingConfig
INITIAL_BATCH_SIZE == 20
MAX_BATCH_SIZE == 25
MAX_RETRY_PER_BATCH == 2
DEGRADATION_CHAIN == <<20, 10, 5, 1>>
MAX_SENTENCE_CHARS == 400
FORCE_SPLIT_CHUNK_SIZE == 280
\* forceSplit looks back this many code units for a break character
ForceSplitLookback == 50

\* ------------------------------------------------------------------------
\* String helpers (String.prototype.*)
\* ------------------------------------------------------------------------
Min(a, b) == IF a <= b THEN a ELSE b
Max(a, b) == IF a >= b THEN a ELSE b

\* text.substring(from, to), 0-based, to exclusive
Substring(s, from, to) == SubSeq(s, from + 1, to)

RECURSIVE Flatten(_)
\* parts.join('')
Flatten(parts) ==
  IF parts = <<>> THEN <<>> ELSE Head(parts) \o Flatten(Tail(parts))

\* the smallest element of a non-empty set of integers
SetMin(S) == CHOOSE k \in S : \A j \in S : k <= j

\* s.trim()
Trim(s) ==
  LET keep == {k \in 1..Len(s) : s[k] \notin WhiteSpace}
  IN IF keep = {} THEN <<>>
     ELSE LET lo == SetMin(keep)
              hi == CHOOSE k \in keep : \A j \in (k + 1)..Len(s) : s[j] \in WhiteSpace
          IN SubSeq(s, lo, hi)

\* s.includes(sub)
Includes(s, sub) ==
  \E k \in 0..(Len(s) - Len(sub)) : SubSeq(s, k + 1, k + Len(sub)) = sub

\* segment.lastIndexOf(char), 0-based, -1 when absent
LastIndexOf(s, c) ==
  LET hits == {k \in 1..Len(s) : s[k] = c}
  IN IF hits = {} THEN -1
     ELSE (CHOOSE k \in hits : \A j \in (k + 1)..Len(s) : s[j] # c) - 1

RECURSIVE KeepRange(_, _, _, _)
\* the code units of s[lo..hi] at the positions of `keep`, in order
KeepRange(s, keep, lo, hi) ==
  IF lo > hi THEN <<>>
  ELSE IF lo = hi THEN (IF lo \in keep THEN <<s[lo]>> ELSE <<>>)
  ELSE LET mid == (lo + hi) \div 2
       IN KeepRange(s, keep, lo, mid) \o KeepRange(s, keep, mid + 1, hi)

\* s.replace(/\r\n/g, '\n'): the CR of every CR LF pair goes
ReplaceCRLF(s) ==
  KeepRange(s, {k \in 1..Len(s) : ~(s[k] = CR /\ k < Len(s) /\ s[k + 1] = LF)},
            1, Len(s))

\* s.replace(/\r/g, '\n')
ReplaceCR(s) == [k \in 1..Len(s) |-> IF s[k] = CR THEN LF ELSE s[k]]

\* length of the maximal run of code units of `set` starting at position k
RunLength(s, k, set) ==
  LET stops == {j \in k..Len(s) : s[j] \notin set}
  IN IF k > Len(s) THEN 0
     ELSE IF stops = {} THEN Len(s) - k + 1
     ELSE SetMin(stops) - k

\* s.replace(/\n{3,}/g, '\n\n'): of a run of line feeds the first two stay
CollapseNewlines(s) ==
  KeepRange(s, {k \in 1..Len(s) :
                  ~(k >= 3 /\ s[k] = LF /\ s[k - 1] = LF /\ s[k - 2] = LF)},
            1, Len(s))

\* s.replace(/[ \t]+/g, ' '): a run of blanks becomes one space
CollapseBlanks(s) ==
  LET blank == {SP, TAB}
      spaced == [k \in 1..Len(s) |-> IF s[k] \in blank THEN SP ELSE s[k]]
  IN KeepRange(spaced, {k \in 1..Len(s) :
                          ~(k >= 2 /\ s[k] \in blank /\ s[k - 1] \in blank)},
               1, Len(s))

\* normalizeText of the analysis text utilities
normalizeText(text) ==
  Trim(CollapseBlanks(CollapseNewlines(ReplaceCR(ReplaceCRLF(text)))))

RECURSIVE SplitParagraphs(_)
\* normalized.split(/\n\n+/): the pieces between maximal runs of two or more
\* line feeds, empty pieces included
SplitParagraphs(s) ==
  LET breaks == {k \in 1..(Len(s) - 1) : s[k] = LF /\ s[k + 1] = LF}
  IN IF breaks = {} THEN <<s>>
     ELSE LET b == SetMin(breaks)
              n == RunLength(s, b, {LF})
          IN <<SubSeq(s, 1, b - 1)>> \o SplitParagraphs(SubSeq(s, b + n, Len(s)))

RECURSIVE SplitAfter(_, _)
\* text.split(/(?<=[set])/).filter(s => s.length > 0): cut after every code
\* unit of `set`, the delimiter staying with the preceding piece
SplitAfter(s, set) ==
  LET cuts == {k \in 1..Len(s) : s[k] \in set}
  IN IF s = <<>> THEN <<>>
     ELSE IF cuts = {} THEN <<s>>
     ELSE LET c == SetMin(cuts)
          IN <<SubSeq(s, 1, c)>> \o SplitAfter(SubSeq(s, c + 1, Len(s)), set)

splitBySentenceEnders(text) == SplitAfter(text, SentenceEnders)

splitByClausePunctuation(text) == SplitAfter(text, ClausePunctuation)

\* ------------------------------------------------------------------------
\* utils/rewrite/tokenize.ts
\* ------------------------------------------------------------------------

\* the end of the window of forceSplit that starts at `start`
ForceSplitEnd(text, start, maxSize) ==
  LET end == Min(start + maxSize, Len(text))
  IN IF end < Len(text)
     THEN LET searchStart == Max(start, end - ForceSplitLookback)
              segment == Substring(text, searchStart, end)
              found == {k \in 1..Len(breakChars) : LastIndexOf(segment, breakChars[k]) # -1}
              breakIndex ==
                IF found = {} THEN -1
                ELSE LET k == SetMin(found)
                     IN searchStart + LastIndexOf(segment, breakChars[k]) + 1
          IN IF breakIndex > start THEN breakIndex ELSE end
     ELSE end

RECURSIVE ForceSplitFrom(_, _, _)
\* the while loop of forceSplit
ForceSplitFrom(text, start, maxSize) ==
  IF start >= Len(text) THEN <<>>
  ELSE LET end == ForceSplitEnd(text, start, maxSize)
           chunk == Substring(text, start, end)
       IN (IF Trim(chunk) # <<>> THEN <<chunk>> ELSE <<>>)
            \o ForceSplitFrom(text, end, maxSize)

forceSplit(text, maxSize) ==
  IF Len(text) <= maxSize THEN <<text>> ELSE ForceSplitFrom(text, 0, maxSize)

RECURSIVE SplitClauses(_)
\* the second level of splitLongSentence
SplitClauses(clauses) ==
  IF clauses = <<>> THEN <<>>
  ELSE (IF Len(Head(clauses)) > MAX_SENTENCE_CHARS
        THEN forceSplit(Head(clauses), FORCE_SPLIT_CHUNK_SIZE)
        ELSE <<Head(clauses)>>) \o SplitClauses(Tail(clauses))

splitLongSentence(text) ==
  IF Len(text) <= MAX_SENTENCE_CHARS THEN <<text>>
  ELSE SplitClauses(splitByClausePunctuation(text))

\* /^#+\s/.test(paragraph)
IsHeading(paragraph) ==
  LET n == RunLength(paragraph, 1, {HASH})
  IN n >= 1 /\ n + 1 <= Len(paragraph) /\ paragraph[n + 1] \in WhiteSpace

\* the trimmed, non-empty segments of one sentence
TrimmedSegments(segments) ==
  SelectSeq([k \in 1..Len(segments) |-> Trim(segments[k])], LAMBDA t : t # <<>>)

RECURSIVE SentencesOf(_)
\* the loop over rawSentences of tokenizeDocument
SentencesOf(rawSentences) ==
  IF rawSentences = <<>> THEN <<>>
  ELSE LET trimmed == Trim(Head(rawSentences))
       IN (IF trimmed = <<>> \/ Len(trimmed) < 2 THEN <<>>
           ELSE TrimmedSegments(splitLongSentence(trimmed)))
            \o SentencesOf(Tail(rawSentences))

\* the sentence texts tokenizeDocument derives from one trimmed paragraph
ParagraphSentences(paragraph) ==
  IF IsHeading(paragraph) THEN <<paragraph>>
  ELSE LET rawSentences == splitBySentenceEnders(paragraph)
       IN IF Len(rawSentences) = 0
          THEN TrimmedSegments(splitLongSentence(paragraph))
          ELSE SentencesOf(rawSentences)

SentenceTokensPerParagraph(texts, sentenceIndex) ==
  [k \in 1..Len(texts) |-> [kind |-> "sentence", index |-> k - 1, text |-> texts[k]]]

\* tokens.push({kind: 'sentence', index: sentenceIndex++, text})
SentenceTokensOf(texts, sentenceIndex) ==
  [k \in 1..Len(texts) |->
     [kind |-> "sentence", index |-> sentenceIndex + k - 1, text |-> texts[k]]]

SeparatorToken == [kind |-> "sep", text |-> ParagraphSeparator]

RECURSIVE TokenizeFrom(_, _, _)
\* the loop over paragraphs of tokenizeDocument; pIdx is 0-based
TokenizeFrom(paragraphs, pIdx, sentenceIndex) ==
  IF pIdx >= Len(paragraphs) THEN <<>>
  ELSE LET paragraph == Trim(paragraphs[pIdx + 1])
       IN IF paragraph = <<>>
          THEN TokenizeFrom(paragraphs, pIdx + 1, sentenceIndex)
          ELSE LET texts == ParagraphSentences(paragraph)
               IN SentenceTokensOf(texts, sentenceIndex)
                    \o (IF pIdx < Len(paragraphs) - 1 THEN <<SeparatorToken>> ELSE <<>>)
                    \o TokenizeFrom(paragraphs, pIdx + 1, sentenceIndex + Len(texts))

tokenizeDocument(text) ==
  LET normalized == ReplaceCR(ReplaceCRLF(text))
  IN TokenizeFrom(SplitParagraphs(normalized), 0, 0)

getSentenceTokens(tokens) == SelectSeq(tokens, LAMBDA t : t.kind = "sentence")

\* replacementMap.set(r.index, r.text) for every r, in order: the last
\* replacement of an index is the one the map keeps
ReplacementMap(replacements) ==
  [index \in {replacements[k].index : k \in 1..Len(replacements)} |->
     LET last == CHOOSE k \in 1..Len(replacements) :
                   /\ replacements[k].index = index
                   /\ \A j \in (k + 1)..Len(replacements) : replacements[j].index # index
     IN replacements[last].text]

\* a sentence token falls back to its own text whenever the replacement is falsy
rebuildTextTruthy(tokens, replacements) ==
  LET map == ReplacementMap(replacements)
  IN Flatten([k \in 1..Len(tokens) |->
       IF tokens[k].kind = "sep" THEN tokens[k].text
       ELSE IF tokens[k].index \in DOMAIN map /\ map[tokens[k].index] # <<>>
            THEN map[tokens[k].index]
            ELSE tokens[k].text])

rebuildText(tokens, replacements) ==
  LET map == ReplacementMap(replacements)
  IN Flatten([k \in 1..Len(tokens) |->
       IF tokens[k].kind = "sep" THEN tokens[k].text
       ELSE IF tokens[k].index \in DOMAIN map
            THEN map[tokens[k].index]
            ELSE tokens[k].text])

RECURSIVE ValidateFromUnseen(_, _, _, _, _)
\* the loop of validateReplacements without seenIndices.add(r.index)
ValidateFromUnseen(replacements, validIndices, seenIndices, valid, errors) ==
  IF replacements = <<>> THEN [valid |-> valid, errors |-> errors]
  ELSE LET r == Head(replacements)
           rest == Tail(replacements)
       IN IF r.index \in seenIndices
          THEN ValidateFromUnseen(rest, validIndices, seenIndices, valid,
                 Append(errors, [kind |-> "duplicate", index |-> r.index]))
          ELSE IF r.index \notin validIndices
          THEN ValidateFromUnseen(rest, validIndices, seenIndices, valid,
                 Append(errors, [kind |-> "invalid", index |-> r.index]))
          ELSE IF Includes(r.text, ParagraphSeparator)
          THEN ValidateFromUnseen(rest, validIndices, seenIndices, valid,
                 Append(errors, [kind |-> "separator", index |-> r.index]))
          ELSE ValidateFromUnseen(rest, validIndices, seenIndices,
                 Append(valid, r), errors)

RECURSIVE ValidateFrom(_, _, _, _, _)
\* the loop of validateReplacements
ValidateFrom(replacements, validIndices, seenIndices, valid, errors) ==
  IF replacements = <<>> THEN [valid |-> valid, errors |-> errors]
  ELSE LET r == Head(replacements)
           rest == Tail(replacements)
       IN IF r.index \in seenIndices
          THEN ValidateFrom(rest, validIndices, seenIndices, valid,
                 Append(errors, [kind |-> "duplicate", index |-> r.index]))
          ELSE IF r.index \notin validIndices
          THEN ValidateFrom(rest, validIndices, seenIndices \cup {r.index}, valid,
                 Append(errors, [kind |-> "invalid", index |-> r.index]))
          ELSE IF Includes(r.text, ParagraphSeparator)
          THEN ValidateFrom(rest, validIndices, seenIndices \cup {r.index}, valid,
                 Append(errors, [kind |-> "separator", index |-> r.index]))
          ELSE ValidateFrom(rest, validIndices, seenIndices \cup {r.index},
                 Append(valid, r), errors)

validateReplacements(replacements, validIndices) ==
  ValidateFrom(replacements, validIndices, {}, <<>>, <<>>)

\* ------------------------------------------------------------------------
\* State
\* ------------------------------------------------------------------------
VARIABLES
  fpc,        \* position of the tokenize / validate / rebuild calls under study
  text,       \* the text handed to tokenizeDocument, chunkDocument or, as
              \* draftText, to calculateFidelityGuardrails
  standardText, \* the rewritten text handed to calculateFidelityGuardrails
  toks,       \* the Token[] it returned
  repls,      \* the Replacement[] handed to validateReplacements / rebuildText
  validIdx,   \* the validIndices handed to validateReplacements
  result      \* what the last call returned

VARIABLES
  mode,                  \* REWRITE_MODE
  summaryDefined,        \* documentContext.documentSummary is a string
  chunks,                \* Chunk[] after chunkDocument and mergeSmallChunks
  i,                     \* the chunk loop's index, 0-based
  pc,                    \* where the workflow stands
  tokens,                \* tokens of the chunk being rewritten
  state,                 \* BatchProcessingState of the chunk
  currentIndex,          \* rewriteChunkWithSentenceEdits: currentIndex
  batchEnd,              \* rewriteChunkWithSentenceEdits: batchEnd
  batchNumber,           \* rewriteChunkWithSentenceEdits: batchNumber
  currentBatch,          \* processBatchWithRetry: currentBatch
  retryCount,            \* processBatchWithRetry: retryCount
  singlePos,             \* position of the single-sentence fallback loop, 1-based
  inflight,              \* requests sent to the rewriting service and not yet settled
  rewrittenContent,      \* what rewriteChunkWithSentenceEdits returned last
  rewrittenConservative, \* accumulated output, full-text mode only
  rewrittenStandard,     \* accumulated output
  rewrittenEnhanced,     \* accumulated output, full-text mode only
  totalFailedSentences,
  failedChunks,
  progress,              \* the last ProgressUpdate handed to onProgress
  analysisReport,
  migrationResult,
  upstreamFails,         \* environment: the upstream calls that fail in this run
  styleGuide,            \* where the StyleGuide of the run comes from
  documentContext        \* where the DocumentContext of the run comes from

\* history of the run, not program state
VARIABLES
  served,       \* indices of the chunk sent in a request that returned successfully
  foreign,      \* accepted replacements <<chunk, index>> the request did not send
  chunkCalls,   \* settled service calls of the chunk: [ok, failed]
  unrewritten,  \* <<chunk, index>> of finished chunks with no successful request
  thrown,       \* exceptions caught by the chunk loop
  segments,     \* what was appended to the output: chunk number, kind, failedCount added
  lastOutcome,  \* how the last settled call to the rewriting service ended
  recent,       \* how the last three calls of the chunk went, oldest first
  cutOff,       \* indices of the chunk cut off by a halving, not sent singly since
  lastFresh,    \* last index of the last batch the while loop sliced, -1 if none
  prevSize      \* currentBatchSize at the end of the last scheduled chunk, 0 if none

fnVars == <<fpc, text, standardText, toks, repls, validIdx, result>>

batchVars == <<currentIndex, batchEnd, batchNumber, currentBatch, retryCount, singlePos>>

outVars == <<rewrittenContent, rewrittenConservative, rewrittenStandard, rewrittenEnhanced,
             totalFailedSentences, failedChunks>>

histVars == <<served, foreign, chunkCalls, unrewritten, thrown, segments>>

callVars == <<lastOutcome, recent, cutOff, lastFresh, prevSize>>

upVars == <<upstreamFails, styleGuide, documentContext>>

wfVars == <<mode, summaryDefined, chunks, i, pc, tokens, state, batchVars, inflight,
            outVars, progress, analysisReport, migrationResult, histVars, callVars, upVars>>

vars == <<fnVars, wfVars>>

\* the JavaScript value undefined
Undefined == [defined |-> FALSE]

\* state: BatchProcessingState at the start of a chunk
FreshState ==
  [currentBatchSize |-> INITIAL_BATCH_SIZE,
   consecutiveFastCalls |-> 0,
   allReplacements |-> <<>>,
   failedIndices |-> <<>>]

\* no workflow is running
WfIdle ==
  /\ mode = "sentenceEdits"
  /\ summaryDefined = TRUE
  /\ chunks = <<>>
  /\ i = 0
  /\ pc = "idle"
  /\ tokens = <<>>
  /\ state = FreshState
  /\ currentIndex = 0
  /\ batchEnd = 0
  /\ batchNumber = 0
  /\ currentBatch = <<>>
  /\ retryCount = 0
  /\ singlePos = 0
  /\ inflight = <<>>
  /\ rewrittenContent = <<>>
  /\ rewrittenConservative = <<>>
  /\ rewrittenStandard = <<>>
  /\ rewrittenEnhanced = <<>>
  /\ totalFailedSentences = 0
  /\ failedChunks = <<>>
  /\ progress = [stage |-> "none"]
  /\ analysisReport = Undefined
  /\ migrationResult = Undefined
  /\ served = {}
  /\ foreign = {}
  /\ chunkCalls = [ok |-> 0, failed |-> 0]
  /\ unrewritten = {}
  /\ thrown = 0
  /\ segments = <<>>
  /\ lastOutcome = "none"
  /\ recent = <<>>
  /\ cutOff = {}
  /\ lastFresh = -1
  /\ prevSize = 0
  /\ styleGuide = "none"
  /\ documentContext = "none"
  /\ upstreamFails = {}

\* no function call is under study
FnIdle ==
  /\ fpc = "idle"
  /\ text = <<>>
  /\ standardText = <<>>
  /\ toks = <<>>
  /\ repls = <<>>
  /\ validIdx = {}
  /\ result = <<>>

\* ------------------------------------------------------------------------
\* tokenizeDocument and rebuildText on their own
\* ------------------------------------------------------------------------
MaxTextLen == 5

Alphabet == {"a", CJKStop, LF, CR, SP, HASH}

Repeat(c, n) == [k \in 1..n |-> c]

\* sentences long enough for the secondary splitting
LongTexts ==
  { Repeat("a", MAX_SENTENCE_CHARS + 1) \o <<CJKStop>>,
    Repeat("a", FORCE_SPLIT_CHUNK_SIZE + 20) \o <<CJKComma>>
      \o Repeat("a", MAX_SENTENCE_CHARS - FORCE_SPLIT_CHUNK_SIZE) \o <<CJKStop>>,
    <<"a", CJKStop, LF, LF>> \o Repeat("a", FORCE_SPLIT_CHUNK_SIZE - 10) \o <<SP>>
      \o Repeat("a", MAX_SENTENCE_CHARS - FORCE_SPLIT_CHUNK_SIZE + 10) \o <<LF, LF, "a", "a">> }

Texts == (UNION {[1..n -> Alphabet] : n \in 0..MaxTextLen}) \cup LongTexts

InitTok ==
  /\ fpc = "in"
  /\ text \in Texts
  /\ standardText = <<>>
  /\ toks = <<>>
  /\ repls = <<>>
  /\ validIdx = {}
  /\ result = <<>>
  /\ WfIdle

\* const tokens = tokenizeDocument(content)
Tokenize ==
  /\ fpc = "in"
  /\ toks' = tokenizeDocument(text)
  /\ fpc' = "tokenized"
  /\ UNCHANGED <<text, standardText, repls, validIdx, result, wfVars>>

\* rebuildText(tokens, [])
RebuildPlain ==
  /\ fpc = "tokenized"
  /\ result' = rebuildText(toks, <<>>)
  /\ fpc' = "rebuilt"
  /\ UNCHANGED <<text, standardText, toks, repls, validIdx, wfVars>>

NextTok == Tokenize \/ RebuildPlain

SpecTok == InitTok /\ [][NextTok]_vars

\* C7: rebuilding the tokens of a text without replacements gives the
\* normalized text (normalizeText): no code unit is lost or added.
C7_RoundTrip ==
  fpc = "rebuilt" => result = normalizeText(text)

\* C10: the sentence tokens of one tokenizeDocument call carry the indices
\* 0, 1, ..., k-1 in list order.
C10_IndicesSequential ==
  fpc # "in" =>
    LET st == getSentenceTokens(toks)
    IN \A k \in 1..Len(st) : st[k].index = k - 1

\* three or more sentence tokens spread over two paragraphs
C10_Witness ==
  /\ fpc = "tokenized"
  /\ Len(getSentenceTokens(toks)) >= 3
  /\ \E k \in 2..(Len(toks) - 1) :
       /\ toks[k].kind = "sep"
       /\ toks[k - 1].kind = "sentence"
       /\ toks[k + 1].kind = "sentence"
       /\ toks[k + 1].index >= 1

\* ------------------------------------------------------------------------
\* validateReplacements and rebuildText on the tokens of a text
\* ------------------------------------------------------------------------
MaxRepl == 2
MaxReplIndex == 3

RebuildTexts ==
  { <<>>,
    <<"a", "a", CJKStop>>,
    <<"a", "a", CJKStop, "b", "b", CJKStop, LF, LF, "c", "c", CJKStop>>,
    <<HASH, SP, "h", LF, LF, "a", "a", CJKStop, SP, "b", "b">> }

ReplTexts == { <<>>, <<"r">>, <<"r", LF, LF, "s">> }

Replacements == [index : 0..MaxReplIndex, text : ReplTexts]

ReplacementLists == UNION {[1..n -> Replacements] : n \in 0..MaxRepl}

InitRebuild ==
  /\ fpc = "tokenized"
  /\ text \in RebuildTexts
  /\ standardText = <<>>
  /\ toks = tokenizeDocument(text)
  /\ repls \in ReplacementLists
  /\ validIdx \in SUBSET (0..MaxReplIndex)
  /\ result = <<>>
  /\ WfIdle

\* validateReplacements(response.replacements, validIndices)
Validate ==
  /\ fpc = "tokenized"
  /\ result' = validateReplacements(repls, validIdx)
  /\ fpc' = "validated"
  /\ UNCHANGED <<text, standardText, toks, repls, validIdx, wfVars>>

\* rebuildText(tokens, replacements)
Rebuild ==
  /\ fpc = "tokenized"
  /\ result' = rebuildText(toks, repls)
  /\ fpc' = "rebuilt"
  /\ UNCHANGED <<text, standardText, toks, repls, validIdx, wfVars>>

\* rebuildText(tokens, valid) on the replacements that passed validation
RebuildValid ==
  /\ fpc = "validated"
  /\ result' = rebuildText(toks, result.valid)
  /\ fpc' = "rebuiltValid"
  /\ UNCHANGED <<text, standardText, toks, repls, validIdx, wfVars>>

NextRebuild == Validate \/ Rebuild \/ RebuildValid

SpecRebuild == InitRebuild /\ [][NextRebuild]_vars

\* the piece token k of tk contributes under the replacements rp: a
\* separator its own text, a sentence the text of the last replacement
\* naming its index, else its own text
PieceOf(tk, rp, k) ==
  LET hits == {j \in 1..Len(rp) : rp[j].index = tk[k].index}
  IN IF tk[k].kind = "sep" THEN tk[k].text
     ELSE IF hits = {} THEN tk[k].text
     ELSE rp[CHOOSE j \in hits : \A h \in hits : j >= h].text

RECURSIVE OffsetOf(_, _, _)
\* where the piece of token k starts in the output
OffsetOf(tk, rp, k) ==
  IF k = 1 THEN 0 ELSE OffsetOf(tk, rp, k - 1) + Len(PieceOf(tk, rp, k - 1))

C8_Piece(k) == PieceOf(toks, repls, k)

C8_Offset(k) == OffsetOf(toks, repls, k)

\* C8: rebuildText(tokens, replacements) is the in-order concatenation of one
\* piece per token; separators are literal, a sentence takes its replacement
\* if there is one, and a replacement matching no token changes nothing.
C8_RebuildPieces ==
  fpc = "rebuilt" =>
    /\ Len(result) = C8_Offset(Len(toks) + 1)
    /\ \A k \in 1..Len(toks) :
         SubSeq(result, C8_Offset(k) + 1, C8_Offset(k) + Len(C8_Piece(k))) = C8_Piece(k)

\* a paragraph break, a replaced sentence and a replacement matching no token
C8_Witness ==
  /\ fpc = "rebuilt"
  /\ \E k \in 1..Len(toks) : toks[k].kind = "sep"
  /\ \E k \in 1..Len(toks), j \in 1..Len(repls) :
       toks[k].kind = "sentence" /\ repls[j].index = toks[k].index
  /\ \E j \in 1..Len(repls) :
       \A k \in 1..Len(toks) : toks[k].kind = "sentence" => toks[k].index # repls[j].index
  /\ result # rebuildText(toks, <<>>)

\* C9: the valid list of validateReplacements holds only indices of the
\* supplied set, no index twice, and no text with a paragraph separator.
C9_ValidSound ==
  fpc = "validated" =>
    /\ \A k \in 1..Len(result.valid) :
         /\ result.valid[k].index \in validIdx
         /\ ~Includes(result.valid[k].text, ParagraphSeparator)
    /\ \A k, j \in 1..Len(result.valid) :
         result.valid[k].index = result.valid[j].index => k = j

\* one replacement accepted and another one rejected
C9_Witness ==
  /\ fpc = "validated"
  /\ Len(result.valid) >= 1
  /\ Len(result.errors) >= 1

\* ------------------------------------------------------------------------
\* services/workflowService.ts: the chunk loop and the batch scheduler
\* ------------------------------------------------------------------------
SLOW_CALL_THRESHOLD_MS == 40000
TARGET_FAST_MS == 15000

\* DEGRADATION_CHAIN.indexOf(size), 0-based, -1 when absent
ChainIndexOf(size) ==
  LET hits == {k \in 1..Len(DEGRADATION_CHAIN) : DEGRADATION_CHAIN[k] = size}
  IN IF hits = {} THEN -1 ELSE SetMin(hits) - 1

\* the size goes down by a fixed step instead of along the chain
degradeBatchSizeByStep(currentSize) == Max(1, currentSize - 5)

degradeBatchSize(currentSize) ==
  LET currentIdx == ChainIndexOf(currentSize)
      smaller == {k \in 1..Len(DEGRADATION_CHAIN) : DEGRADATION_CHAIN[k] < currentSize}
  IN IF currentIdx = -1
     THEN (IF smaller = {} THEN 1 ELSE DEGRADATION_CHAIN[SetMin(smaller)])
     ELSE IF currentIdx < Len(DEGRADATION_CHAIN) - 1
          THEN DEGRADATION_CHAIN[currentIdx + 2]
          ELSE 1

\* how a measured call compares with the two thresholds
Speed(durationMs) ==
  IF durationMs > SLOW_CALL_THRESHOLD_MS THEN "slow"
  ELSE IF durationMs < TARGET_FAST_MS THEN "fast"
  ELSE "normal"

\* the record of the last three calls after one more call
Recent(calls, call) ==
  LET all == Append(calls, call)
  IN IF Len(all) > 3 THEN Tail(all) ELSE all

\* a slow call degrades the size but leaves the fast-call counter alone
AdjustBatchSizeKeepCounter(st, durationMs) ==
  IF durationMs > SLOW_CALL_THRESHOLD_MS
  THEN [st EXCEPT !.currentBatchSize = degradeBatchSize(st.currentBatchSize)]
  ELSE IF durationMs < TARGET_FAST_MS
  THEN LET fast == st.consecutiveFastCalls + 1
           chainIdx == ChainIndexOf(st.currentBatchSize)
       IN IF fast >= 3 /\ st.currentBatchSize < MAX_BATCH_SIZE
          THEN [st EXCEPT !.currentBatchSize =
                            IF chainIdx > 0 THEN DEGRADATION_CHAIN[chainIdx] ELSE @,
                          !.consecutiveFastCalls = 0]
          ELSE [st EXCEPT !.consecutiveFastCalls = fast]
  ELSE [st EXCEPT !.consecutiveFastCalls = 0]

\* processBatchWithRetry: "Adjust batch size based on timing"
AdjustBatchSize(st, durationMs) ==
  IF durationMs > SLOW_CALL_THRESHOLD_MS
  THEN [st EXCEPT !.currentBatchSize = degradeBatchSize(st.currentBatchSize),
                  !.consecutiveFastCalls = 0]
  ELSE IF durationMs < TARGET_FAST_MS
  THEN LET fast == st.consecutiveFastCalls + 1
           chainIdx == ChainIndexOf(st.currentBatchSize)
       IN IF fast >= 3 /\ st.currentBatchSize < MAX_BATCH_SIZE
          THEN [st EXCEPT !.currentBatchSize =
                            IF chainIdx > 0 THEN DEGRADATION_CHAIN[chainIdx] ELSE @,
                          !.consecutiveFastCalls = 0]
          ELSE [st EXCEPT !.consecutiveFastCalls = fast]
  ELSE [st EXCEPT !.consecutiveFastCalls = 0]

\* call durations on both sides of the two thresholds
Durations ==
  {TARGET_FAST_MS - 1, TARGET_FAST_MS, SLOW_CALL_THRESHOLD_MS, SLOW_CALL_THRESHOLD_MS + 1}

\* how a call to the rewriting service can fail: timeout abort, transport or
\* HTTP error, JSON parse error, response without a replacements list
FailureKinds == {"abort", "http", "parse", "shape"}

sentenceTokens == getSentenceTokens(tokens)

IndicesOf(sentences) == {sentences[k].index : k \in 1..Len(sentences)}

\* new Set(sentenceTokens.map(s => s.index))
validIndices == IndicesOf(sentenceTokens)

NewText == <<"r", CJKStop>>
AltText == <<"s", CJKStop>>
BadText == <<"r", LF, LF, "s">>

\* replacement lists the rewriting service may answer a request with: none,
\* the first sentence, every sentence, a text with a paragraph break, the same
\* index twice, an index outside the chunk, an index of the chunk not sent
ServiceReplies(request) ==
  LET first == request[1].index
      others == validIndices \ IndicesOf(request)
      outside == SetMin({k \in 0..Len(tokens) : k \notin validIndices})
  IN { <<>>,
       <<[index |-> first, text |-> NewText]>>,
       [k \in 1..Len(request) |-> [index |-> request[k].index, text |-> NewText]],
       <<[index |-> first, text |-> BadText]>>,
       <<[index |-> first, text |-> NewText], [index |-> first, text |-> AltText]>>,
       <<[index |-> outside, text |-> NewText]>> }
     \cup { <<[index |-> o, text |-> NewText]>> :
              o \in (IF others = {} THEN {} ELSE {SetMin(others)}) }

\* answers of the full-text rewriting call
FullTextReplies(content) ==
  { [conservative |-> content, standard |-> content, enhanced |-> content],
    [conservative |-> content, standard |-> NewText, enhanced |-> AltText] }

\* `[Error: Processing failed for section "${title}"]`
ErrorMarker(title) ==
  <<"[", "E", "r", "r", "o", "r", ":", " ", "P", "r", "o", "c", "e", "s", "s", "i", "n", "g",
    " ", "f", "a", "i", "l", "e", "d", " ", "f", "o", "r", " ", "s", "e", "c", "t", "i", "o",
    "n", " ", "\"">> \o title \o <<"\"", "]">>

\* Math.round((currentIndex / sentenceTokens.length) * 100)
ProgressPercent(done, total) == (200 * done + total) \div (2 * total)

\* -- workflow inputs ------------------------------------------------------
Sentence(c) == <<c, c, CJKStop>>

\* n sentences in one paragraph
Sentences(n) == Flatten([k \in 1..n |-> Sentence("a")])

\* a sentence of n code units
LongSentence(n) == Repeat("a", n - 1) \o <<CJKStop>>

PartTitle == <<"P", "a", "r", "t", " ", "1">>

\* chunk lists chunkDocument and mergeSmallChunks return: a document without
\* headings gives one chunk "Part 1"; two headed sections stay apart when the
\* first has MIN_CHUNK_SIZE (400) code units
Drafts ==
  { <<[title |-> PartTitle, content |-> <<"a">>]>>,
    <<[title |-> PartTitle, content |-> Sentences(2)]>>,
    <<[title |-> PartTitle, content |-> Sentences(2) \o ParagraphSeparator \o Sentence("c")]>>,
    <<[title |-> PartTitle, content |-> Sentences(8)]>>,
    <<[title |-> PartTitle, content |-> Sentences(INITIAL_BATCH_SIZE + 1)]>>,
    <<[title |-> <<"A">>, content |-> LongSentence(200) \o LongSentence(200)],
      [title |-> <<"B">>, content |-> Sentences(2)]>> }

\* the drafts of the runs in which an upstream call fails
SmallDrafts == {d \in Drafts : Len(d) = 1 /\ Len(d[1].content) <= Len(Sentences(2))}

\* the calls before the chunk loop
UpstreamCalls == {"extractStyleGuide", "generateDocumentContext"}

Init ==
  /\ FnIdle
  /\ mode \in {"sentenceEdits", "fullText"}
  /\ summaryDefined = TRUE
  /\ chunks \in Drafts
  /\ upstreamFails \in SUBSET UpstreamCalls
  /\ upstreamFails # {} => chunks \in SmallDrafts
  /\ i = 0
  /\ pc = "start"
  /\ tokens = <<>>
  /\ state = FreshState
  /\ currentIndex = 0
  /\ batchEnd = 0
  /\ batchNumber = 0
  /\ currentBatch = <<>>
  /\ retryCount = 0
  /\ singlePos = 0
  /\ inflight = <<>>
  /\ rewrittenContent = <<>>
  /\ rewrittenConservative = <<>>
  /\ rewrittenStandard = <<>>
  /\ rewrittenEnhanced = <<>>
  /\ totalFailedSentences = 0
  /\ failedChunks = <<>>
  /\ progress = [stage |-> "none"]
  /\ analysisReport = Undefined
  /\ migrationResult = Undefined
  /\ served = {}
  /\ foreign = {}
  /\ chunkCalls = [ok |-> 0, failed |-> 0]
  /\ unrewritten = {}
  /\ thrown = 0
  /\ segments = <<>>
  /\ lastOutcome = "none"
  /\ recent = <<>>
  /\ cutOff = {}
  /\ lastFresh = -1
  /\ prevSize = 0
  /\ styleGuide = "none"
  /\ documentContext = "none"

SentenceRequest(sentences) == [kind |-> "sentences", sentences |-> sentences]

ChunkRequest(content) == [kind |-> "chunk", mainContent |-> content]

\* how a call of rewriteSentencesInInferenceMode can end: with a response
\* carrying a replacements list, or in one of the FailureKinds
ServiceOutcomes(request) ==
  {[kind |-> "ok", replacements |-> r] : r \in ServiceReplies(request)}
    \cup {[kind |-> k] : k \in FailureKinds}

\* the promise of rewriteSentencesInInferenceMode rejects: the request was
\* aborted, the transport or the HTTP status failed, the text was no JSON
Rejects(outcome) == outcome.kind \in {"abort", "http", "parse"}

\* response.replacements
ReplacementsOf(outcome) == IF outcome.kind = "ok" THEN outcome.replacements ELSE <<>>

\* a response without a replacements list passes for an empty one
BatchThrowsOnReject(outcome) == Rejects(outcome)

\* the try block of the batch request throws: the awaited promise rejected,
\* or response.replacements.length is read of undefined
BatchThrows(outcome) == Rejects(outcome) \/ outcome.kind = "shape"

\* the try block of a single-sentence request throws: the awaited promise
\* rejected, or validateReplacements iterates over undefined
SingleThrows(outcome) == Rejects(outcome) \/ outcome.kind = "shape"

\* the next request goes out while the one before is still pending
SettleNever(requests) == requests

\* await: the pending request has settled when the function goes on
Settle(requests) == Tail(requests)

\* the end index is taken as inclusive
sliceInclusive(arr, start, end) == SubSeq(arr, start + 1, Min(end + 1, Len(arr)))

\* arr.slice(start, end)
slice(arr, start, end) == SubSeq(arr, start + 1, Min(end, Len(arr)))

\* the index moves on by the batch size the call left behind
AfterBatchBySize(index, end, st) == index + st.currentBatchSize

\* currentIndex = batchEnd, after processBatchWithRetry has returned
AfterBatch(index, end, st) == end

\* -- run*Workflow up to the chunk loop ------------------------------------
\* extractStyleGuide and generateDocumentContext answered, with the safe
\* default in place of a failed call; a generated document context is parsed
\* JSON whose documentSummary may be missing
StartRun ==
  /\ pc = "start"
  /\ styleGuide' = IF "extractStyleGuide" \in upstreamFails THEN "default" ELSE "extracted"
  /\ documentContext' =
       IF "generateDocumentContext" \in upstreamFails THEN "default" ELSE "generated"
  /\ IF "generateDocumentContext" \in upstreamFails
     THEN summaryDefined' = TRUE
     ELSE \E ok \in BOOLEAN : summaryDefined' = ok
  /\ pc' = "forLoop"
  /\ progress' = [stage |-> "chunking"]
  /\ UNCHANGED <<fnVars, mode, chunks, i, tokens, state, batchVars, inflight, outVars,
                 analysisReport, migrationResult, histVars, callVars, upstreamFails>>

\* extractStyleGuide or generateDocumentContext threw: the run is aborted
AbortRun ==
  /\ pc = "start"
  /\ upstreamFails # {}
  /\ pc' = "aborted"
  /\ UNCHANGED <<fnVars, mode, summaryDefined, chunks, i, tokens, state, batchVars,
                 inflight, outVars, progress, analysisReport, migrationResult, histVars,
                 callVars, upVars>>

\* -- rewriteChunkWithSentenceEdits ----------------------------------------
\* the chunk loop enters chunk i: tokenize; a chunk without sentence tokens
\* is returned as it is, else the scheduler state is set up
BeginChunk ==
  /\ pc = "forLoop"
  /\ mode = "sentenceEdits"
  /\ i < Len(chunks)
  /\ LET content == chunks[i + 1].content
         newTokens == tokenizeDocument(content)
     IN /\ tokens' = newTokens
        /\ IF Len(getSentenceTokens(newTokens)) = 0
           THEN /\ rewrittenContent' = content
                /\ rewrittenStandard' = rewrittenStandard \o content \o <<LF, LF>>
                /\ segments' = Append(segments, [chunk |-> i + 1, kind |-> "rewritten",
                                                 failedCount |-> 0])
                /\ pc' = "chunkProgress"
           ELSE /\ summaryDefined
                /\ pc' = "whileLoop"
                /\ UNCHANGED <<rewrittenContent, rewrittenStandard, segments>>
  /\ state' = FreshState
  /\ currentIndex' = 0
  /\ batchNumber' = 0
  /\ progress' = [stage |-> "chunk", current |-> i + 1, total |-> Len(chunks)]
  /\ served' = {}
  /\ chunkCalls' = [ok |-> 0, failed |-> 0]
  /\ lastOutcome' = "none"
  /\ recent' = <<>>
  /\ cutOff' = {}
  /\ lastFresh' = -1
  /\ UNCHANGED <<fnVars, mode, summaryDefined, chunks, i, batchEnd, currentBatch, retryCount,
                 singlePos, inflight, rewrittenConservative, rewrittenEnhanced,
                 totalFailedSentences, failedChunks, analysisReport, migrationResult,
                 foreign, unrewritten, thrown, prevSize, upVars>>

\* one iteration of the while loop: slice the next batch and send it
SubmitBatch ==
  /\ pc = "whileLoop"
  /\ currentIndex < Len(sentenceTokens)
  /\ LET end == Min(currentIndex + state.currentBatchSize, Len(sentenceTokens))
         batch == slice(sentenceTokens, currentIndex, end)
     IN /\ Len(batch) > 0
        /\ batchEnd' = end
        /\ currentBatch' = batch
        /\ inflight' = Append(inflight, SentenceRequest(batch))
        /\ lastFresh' = batch[Len(batch)].index
  /\ batchNumber' = batchNumber + 1
  /\ retryCount' = 0
  /\ pc' = "awaitBatch"
  /\ UNCHANGED <<fnVars, mode, summaryDefined, chunks, i, tokens, state, currentIndex,
                 singlePos, outVars, progress, analysisReport, migrationResult, histVars,
                 lastOutcome, recent, cutOff, prevSize, upVars>>

\* the accepted replacements of a response, and the ones naming a sentence
\* the request did not send
Accepted(reply) == validateReplacements(reply, validIndices).valid

ForeignOf(request, valid) ==
  {<<i, valid[k].index>> : k \in {j \in 1..Len(valid) : valid[j].index \notin IndicesOf(request)}}

\* the batch request returned after durationMs with `outcome`: validate,
\* accumulate, adjust the batch size, return to the while loop
BatchSuccessWith(durationMs, outcome) ==
  /\ pc = "awaitBatch"
  /\ ~BatchThrows(outcome)
  /\ LET valid == Accepted(ReplacementsOf(outcome))
         adjusted == AdjustBatchSize(
                       [state EXCEPT !.allReplacements = @ \o valid], durationMs)
     IN /\ state' = adjusted
        /\ foreign' = foreign \cup ForeignOf(currentBatch, valid)
        /\ currentIndex' = AfterBatch(currentIndex, batchEnd, adjusted)
  /\ lastOutcome' = outcome.kind
  /\ recent' = Recent(recent, Speed(durationMs))
  /\ served' = served \cup IndicesOf(currentBatch)
  /\ chunkCalls' = [chunkCalls EXCEPT !.ok = @ + 1]
  /\ inflight' = Settle(inflight)
  /\ pc' = "batchProgress"
  /\ UNCHANGED <<fnVars, mode, summaryDefined, chunks, i, tokens, batchEnd, batchNumber,
                 currentBatch, retryCount, singlePos, outVars, progress, analysisReport,
                 migrationResult, unrewritten, thrown, segments, cutOff, lastFresh, prevSize, upVars>>

BatchSuccess ==
  /\ pc = "awaitBatch"
  /\ \E durationMs \in Durations, outcome \in ServiceOutcomes(currentBatch) :
       BatchSuccessWith(durationMs, outcome)

\* the failure also resets the fast-call counter
PushFailedIndexAndReset(st, index) ==
  [st EXCEPT !.failedIndices = Append(@, index), !.consecutiveFastCalls = 0]

\* state.failedIndices.push(index)
PushFailedIndex(st, index) == [st EXCEPT !.failedIndices = Append(@, index)]

\* the batch request failed: resend the first half, or record the single
\* sentence as failed, or start the single-sentence fallback
BatchFailure ==
  /\ pc = "awaitBatch"
  /\ \E outcome \in ServiceOutcomes(currentBatch) :
       /\ BatchThrows(outcome)
       /\ lastOutcome' = outcome.kind
  /\ recent' = Recent(recent, "failed")
  /\ retryCount' = retryCount + 1
  /\ chunkCalls' = [chunkCalls EXCEPT !.failed = @ + 1]
  /\ IF retryCount + 1 <= MAX_RETRY_PER_BATCH /\ Len(currentBatch) > 1
     THEN LET halfSize == Max(1, Len(currentBatch) \div 2)
              firstHalf == slice(currentBatch, 0, halfSize)
          IN /\ currentBatch' = firstHalf
             /\ inflight' = Append(Settle(inflight), SentenceRequest(firstHalf))
             /\ cutOff' = cutOff \cup (IndicesOf(currentBatch) \ IndicesOf(firstHalf))
             /\ UNCHANGED <<state, currentIndex, singlePos, pc>>
     ELSE IF Len(currentBatch) = 1
     THEN /\ state' = PushFailedIndex(state, currentBatch[1].index)
          /\ inflight' = Settle(inflight)
          /\ currentIndex' = AfterBatch(currentIndex, batchEnd, state)
          /\ pc' = "batchProgress"
          /\ UNCHANGED <<currentBatch, singlePos, cutOff>>
     ELSE /\ singlePos' = 1
          /\ inflight' = Append(Settle(inflight), SentenceRequest(<<currentBatch[1]>>))
          /\ cutOff' = cutOff \ {currentBatch[1].index}
          /\ pc' = "awaitSingle"
          /\ UNCHANGED <<state, currentBatch, currentIndex>>
  /\ UNCHANGED <<fnVars, mode, summaryDefined, chunks, i, tokens, batchEnd, batchNumber,
                 outVars, progress, analysisReport, migrationResult, served, foreign,
                 unrewritten, thrown, segments, lastFresh, prevSize, upVars>>

\* the fallback loop moves to the next sentence of currentBatch, or returns
SingleAdvance ==
  IF singlePos < Len(currentBatch)
  THEN /\ singlePos' = singlePos + 1
       /\ inflight' = Append(Settle(inflight), SentenceRequest(<<currentBatch[singlePos + 1]>>))
       /\ cutOff' = cutOff \ {currentBatch[singlePos + 1].index}
       /\ UNCHANGED <<currentIndex, pc>>
  ELSE /\ inflight' = Settle(inflight)
       /\ currentIndex' = AfterBatch(currentIndex, batchEnd, state)
       /\ pc' = "batchProgress"
       /\ UNCHANGED <<singlePos, cutOff>>

\* a single-sentence request returned
SingleSuccess ==
  /\ pc = "awaitSingle"
  /\ \E outcome \in ServiceOutcomes(<<currentBatch[singlePos]>>) :
       LET valid == Accepted(ReplacementsOf(outcome))
       IN /\ ~SingleThrows(outcome)
          /\ lastOutcome' = outcome.kind
          /\ state' = [state EXCEPT !.allReplacements = @ \o valid]
          /\ foreign' = foreign \cup ForeignOf(<<currentBatch[singlePos]>>, valid)
  /\ recent' = Recent(recent, "unmeasured")
  /\ served' = served \cup {currentBatch[singlePos].index}
  /\ chunkCalls' = [chunkCalls EXCEPT !.ok = @ + 1]
  /\ SingleAdvance
  /\ UNCHANGED <<fnVars, mode, summaryDefined, chunks, i, tokens, batchEnd, batchNumber,
                 currentBatch, retryCount, outVars, progress, analysisReport,
                 migrationResult, unrewritten, thrown, segments, lastFresh, prevSize, upVars>>

\* a single-sentence request failed: the sentence keeps its text
SingleFailure ==
  /\ pc = "awaitSingle"
  /\ \E outcome \in ServiceOutcomes(<<currentBatch[singlePos]>>) :
       /\ SingleThrows(outcome)
       /\ lastOutcome' = outcome.kind
  /\ recent' = Recent(recent, "failed")
  /\ state' = PushFailedIndex(state, currentBatch[singlePos].index)
  /\ chunkCalls' = [chunkCalls EXCEPT !.failed = @ + 1]
  /\ SingleAdvance
  /\ UNCHANGED <<fnVars, mode, summaryDefined, chunks, i, tokens, batchEnd, batchNumber,
                 currentBatch, retryCount, outVars, progress, analysisReport,
                 migrationResult, served, foreign, unrewritten, thrown, segments, lastFresh,
                 prevSize, upVars>>

\* onProgress after a batch, then the 200 ms pause
BatchProgress ==
  /\ pc = "batchProgress"
  /\ progress' = [stage |-> "batch",
                  percent |-> ProgressPercent(currentIndex, Len(sentenceTokens)),
                  current |-> i + 1, total |-> Len(chunks)]
  /\ pc' = "whileLoop"
  /\ UNCHANGED <<fnVars, mode, summaryDefined, chunks, i, tokens, state, batchVars, inflight,
                 outVars, analysisReport, migrationResult, histVars, callVars, upVars>>

\* the while loop is over: rebuild the chunk and hand it to the chunk loop,
\* which appends it to the output and adds up the failures
FinishChunk ==
  /\ pc = "whileLoop"
  /\ currentIndex >= Len(sentenceTokens)
  /\ LET rebuilt == rebuildText(tokens, state.allReplacements)
     IN /\ rewrittenContent' = rebuilt
        /\ rewrittenStandard' = rewrittenStandard \o rebuilt \o <<LF, LF>>
  /\ totalFailedSentences' = totalFailedSentences + Len(state.failedIndices)
  /\ segments' = Append(segments, [chunk |-> i + 1, kind |-> "rewritten",
                                   failedCount |-> Len(state.failedIndices)])
  /\ unrewritten' = unrewritten \cup {<<i, x>> : x \in validIndices \ served}
  /\ prevSize' = state.currentBatchSize
  /\ pc' = "chunkProgress"
  /\ UNCHANGED <<fnVars, mode, summaryDefined, chunks, i, tokens, state, batchVars, inflight,
                 rewrittenConservative, rewrittenEnhanced, failedChunks, progress,
                 analysisReport, migrationResult, served, foreign, chunkCalls, thrown,
                 lastOutcome, recent, cutOff, lastFresh, upVars>>

\* onProgress with the accumulated output, the pause, and on to the next chunk
ChunkProgress ==
  /\ pc = "chunkProgress"
  /\ progress' = [stage |-> "chunkDone", current |-> i + 1, total |-> Len(chunks)]
  /\ i' = i + 1
  /\ pc' = "forLoop"
  /\ UNCHANGED <<fnVars, mode, summaryDefined, chunks, tokens, state, batchVars, inflight,
                 outVars, analysisReport, migrationResult, histVars, callVars, upVars>>

\* -- runFullTextWorkflow --------------------------------------------------
\* the chunk loop enters chunk i and sends the whole chunk
BeginChunkFullText ==
  /\ pc = "forLoop"
  /\ mode = "fullText"
  /\ i < Len(chunks)
  /\ progress' = [stage |-> "chunk", current |-> i + 1, total |-> Len(chunks)]
  /\ inflight' = Append(inflight, ChunkRequest(chunks[i + 1].content))
  /\ pc' = "awaitChunk"
  /\ UNCHANGED <<fnVars, mode, summaryDefined, chunks, i, tokens, state, batchVars, outVars,
                 analysisReport, migrationResult, histVars, callVars, upVars>>

\* rewriteChunkInInferenceMode returned the three variants
ChunkRewritten ==
  /\ pc = "awaitChunk"
  /\ \E rewrittenChunk \in FullTextReplies(chunks[i + 1].content) :
       /\ rewrittenConservative' =
            rewrittenConservative \o rewrittenChunk.conservative \o <<LF, LF>>
       /\ rewrittenStandard' = rewrittenStandard \o rewrittenChunk.standard \o <<LF, LF>>
       /\ rewrittenEnhanced' = rewrittenEnhanced \o rewrittenChunk.enhanced \o <<LF, LF>>
  /\ inflight' = Settle(inflight)
  /\ segments' = Append(segments, [chunk |-> i + 1, kind |-> "rewritten", failedCount |-> 0])
  /\ pc' = "chunkProgress"
  /\ UNCHANGED <<fnVars, mode, summaryDefined, chunks, i, tokens, state, batchVars,
                 rewrittenContent, totalFailedSentences, failedChunks, progress,
                 analysisReport, migrationResult, served, foreign, chunkCalls, unrewritten,
                 thrown, callVars, upVars>>

\* -- the catch block of the chunk loop ------------------------------------
CatchOutputNothing(m, chunk) == <<>>

\* what the catch block puts into the output in place of the chunk
CatchOutput(m, chunk) ==
  IF m = "sentenceEdits" THEN chunk.content ELSE ErrorMarker(chunk.title)

\* places of the try block where an exception escapes: onProgress throws
\* (entering the chunk, after a batch, after the chunk), the summary of the
\* document context is undefined, the full-text request fails
ThrowPoint ==
  \/ pc = "forLoop" /\ i < Len(chunks)
  \/ pc \in {"batchProgress", "chunkProgress", "awaitChunk"}

ChunkCatch ==
  /\ ThrowPoint
  /\ thrown' = thrown + 1
  /\ segments' = Append(segments, [chunk |-> i + 1, kind |-> "original", failedCount |-> 0])
  /\ failedChunks' = Append(failedChunks, i + 1)
  /\ LET piece == CatchOutput(mode, chunks[i + 1]) \o <<LF, LF>>
     IN /\ rewrittenStandard' = rewrittenStandard \o piece
        /\ IF mode = "sentenceEdits"
           THEN UNCHANGED <<rewrittenConservative, rewrittenEnhanced>>
           ELSE /\ rewrittenConservative' = rewrittenConservative \o piece
                /\ rewrittenEnhanced' = rewrittenEnhanced \o piece
  /\ inflight' = <<>>
  /\ i' = i + 1
  /\ pc' = "forLoop"
  /\ UNCHANGED <<fnVars, mode, summaryDefined, chunks, tokens, state, batchVars,
                 rewrittenContent, totalFailedSentences, progress, analysisReport,
                 migrationResult, served, foreign, chunkCalls, unrewritten, callVars, upVars>>

\* -- after the chunk loop -------------------------------------------------
AnalysisModes == {"none", "fidelityOnly", "full"}

reportStatus ==
  IF mode = "sentenceEdits"
  THEN (IF Len(failedChunks) = 0 /\ totalFailedSentences = 0 THEN "complete" ELSE "partial")
  ELSE (IF Len(failedChunks) = 0 THEN "complete" ELSE "partial")

reportMessage ==
  IF mode = "sentenceEdits"
  THEN (IF Len(failedChunks) > 0 \/ totalFailedSentences > 0
        THEN [defined |-> TRUE, failedChunks |-> Len(failedChunks),
              failedSentences |-> totalFailedSentences]
        ELSE Undefined)
  ELSE (IF Len(failedChunks) > 0
        THEN [defined |-> TRUE, failedChunks |-> Len(failedChunks), list |-> failedChunks]
        ELSE Undefined)

\* the report for ANALYSIS_MODE, and the returned MigrationResult
GenerateReport ==
  /\ pc = "forLoop"
  /\ i >= Len(chunks)
  /\ \E analysisMode \in AnalysisModes :
       /\ analysisReport' =
            IF analysisMode = "none" THEN Undefined
            ELSE [defined |-> TRUE, status |-> reportStatus, message |-> reportMessage,
                  analysisMode |-> analysisMode]
       /\ progress' = IF analysisMode = "none" THEN progress ELSE [stage |-> "report"]
  /\ migrationResult' =
       IF mode = "sentenceEdits"
       THEN [defined |-> TRUE, standard |-> Trim(rewrittenStandard)]
       ELSE [defined |-> TRUE, conservative |-> Trim(rewrittenConservative),
             standard |-> Trim(rewrittenStandard), enhanced |-> Trim(rewrittenEnhanced)]
  /\ pc' = "done"
  /\ UNCHANGED <<fnVars, mode, summaryDefined, chunks, i, tokens, state, batchVars, inflight,
                 outVars, histVars, callVars, upVars>>

Next ==
  \/ StartRun
  \/ AbortRun
  \/ BeginChunk
  \/ SubmitBatch
  \/ BatchSuccess
  \/ BatchFailure
  \/ SingleSuccess
  \/ SingleFailure
  \/ BatchProgress
  \/ FinishChunk
  \/ ChunkProgress
  \/ BeginChunkFullText
  \/ ChunkRewritten
  \/ ChunkCatch
  \/ GenerateReport

Spec == Init /\ [][Next]_vars

\* ------------------------------------------------------------------------
\* Properties of the scheduler and the chunk loop
\* ------------------------------------------------------------------------
Range(seq) == {seq[k] : k \in 1..Len(seq)}

\* rewriteChunkWithSentenceEdits has returned for the chunk
ChunkReturned == mode = "sentenceEdits" /\ pc = "chunkProgress"

\* C1: when rewriteChunkWithSentenceEdits finishes a chunk, every sentence
\* token was part of a request that returned successfully or is recorded in
\* failedIndices.
C1_NoTokenSkipped ==
  ChunkReturned =>
    \A x \in validIndices : x \in served \/ x \in Range(state.failedIndices)

\* C2: a chunk of N >= 1 sentence tokens whose service calls all failed ends
\* with failedCount = N.
C2_AllFailCount ==
  (ChunkReturned /\ Len(sentenceTokens) >= 1 /\ chunkCalls.ok = 0) =>
    Len(state.failedIndices) = Len(sentenceTokens)

\* C3: every sentence recorded in failedIndices stands in the rebuilt chunk
\* with its original token text.
C3_FailedKeepOriginal ==
  ChunkReturned =>
    \A k \in 1..Len(tokens) :
      (tokens[k].kind = "sentence" /\ tokens[k].index \in Range(state.failedIndices)) =>
        LET offset == OffsetOf(tokens, state.allReplacements, k)
        IN /\ offset + Len(tokens[k].text) <= Len(rewrittenContent)
           /\ SubSeq(rewrittenContent, offset + 1, offset + Len(tokens[k].text)) = tokens[k].text

\* C4: every replacement accepted into state.allReplacements names a sentence
\* of the request whose response carried it.
C4_OnlySentIndices == foreign = {}

\* the catch block of the chunk loop ran in this step
Caught == thrown' > thrown

CatchRecorded ==
  /\ failedChunks' = Append(failedChunks, i + 1)
  /\ i' = i + 1
  /\ pc' = "forLoop"

\* C5 as claimed: in both modes the output receives the original content of
\* the chunk that threw, the chunk is recorded as failed, the loop goes on.
C5_CatchKeepsOriginal ==
  [][Caught =>
       /\ rewrittenStandard' = rewrittenStandard \o chunks[i + 1].content \o <<LF, LF>>
       /\ CatchRecorded]_vars

\* C5 amended: in sentence-edits mode the output receives the original
\* content of the chunk that threw; in full-text mode each of the three
\* outputs receives the error marker naming the chunk's title; in both modes
\* the chunk is recorded as failed and the loop goes on with the next chunk.
C5_CatchPerMode ==
  [][Caught =>
       /\ mode = "sentenceEdits" =>
            /\ rewrittenStandard' = rewrittenStandard \o chunks[i + 1].content \o <<LF, LF>>
            /\ UNCHANGED <<rewrittenConservative, rewrittenEnhanced>>
       /\ mode = "fullText" =>
            LET marker == ErrorMarker(chunks[i + 1].title) \o <<LF, LF>>
            IN /\ rewrittenStandard' = rewrittenStandard \o marker
               /\ rewrittenConservative' = rewrittenConservative \o marker
               /\ rewrittenEnhanced' = rewrittenEnhanced \o marker
       /\ CatchRecorded]_vars

\* chunk 1 threw and the loop is inside chunk 2
C5_Witness ==
  /\ thrown = 1
  /\ failedChunks = <<1>>
  /\ i = 1
  /\ pc \in {"awaitBatch", "awaitChunk"}

\* C6: a report has status complete or partial, and complete only if no chunk
\* failed and no failed call left a sentence without a successful request.
C6_StatusHonest ==
  analysisReport.defined =>
    /\ analysisReport.status \in {"complete", "partial"}
    /\ analysisReport.status = "complete" =>
         /\ failedChunks = <<>>
         /\ unrewritten = {}

\* ------------------------------------------------------------------------
\* services/workflowService.ts: chunkDocument and mergeSmallChunks
\* ------------------------------------------------------------------------
PARAGRAPHS_PER_CHUNK == 6
MIN_CHUNK_SIZE == 400
MAX_CHUNK_CHAR == 2000

\* the line terminators of the regex engine: ^ matches after one, . matches
\* none
LineTerminators == {LF, CR}

Digits == {"0", "1", "2", "3", "4", "5", "6", "7", "8", "9"}

DigitChars == <<"0", "1", "2", "3", "4", "5", "6", "7", "8", "9">>

UpperLetters ==
  <<"A", "B", "C", "D", "E", "F", "G", "H", "I", "J", "K", "L", "M",
    "N", "O", "P", "Q", "R", "S", "T", "U", "V", "W", "X", "Y", "Z">>

LowerLetters ==
  <<"a", "b", "c", "d", "e", "f", "g", "h", "i", "j", "k", "l", "m",
    "n", "o", "p", "q", "r", "s", "t", "u", "v", "w", "x", "y", "z">>

\* the case folding of the regex flag i
Lower(c) ==
  LET hits == {k \in 1..Len(UpperLetters) : UpperLetters[k] = c}
  IN IF hits = {} THEN c ELSE LowerLetters[SetMin(hits)]

\* the alternatives of academicSections, case folded
academicSections ==
  { <<"a", "b", "s", "t", "r", "a", "c", "t">>,
    <<"i", "n", "t", "r", "o", "d", "u", "c", "t", "i", "o", "n">>,
    <<"b", "a", "c", "k", "g", "r", "o", "u", "n", "d">>,
    <<"l", "i", "t", "e", "r", "a", "t", "u", "r", "e", " ", "r", "e", "v", "i", "e", "w">>,
    <<"m", "e", "t", "h", "o", "d", "o", "l", "o", "g", "y">>,
    <<"m", "e", "t", "h", "o", "d", "s">>,
    <<"m", "a", "t", "e", "r", "i", "a", "l", "s", " ", "a", "n", "d", " ", "m", "e", "t", "h", "o", "d", "s">>,
    <<"e", "x", "p", "e", "r", "i", "m", "e", "n", "t", "a", "l", " ", "s", "e", "t", "u", "p">>,
    <<"r", "e", "s", "u", "l", "t", "s">>,
    <<"f", "i", "n", "d", "i", "n", "g", "s">>,
    <<"d", "i", "s", "c", "u", "s", "s", "i", "o", "n">>,
    <<"c", "o", "n", "c", "l", "u", "s", "i", "o", "n">>,
    <<"s", "u", "m", "m", "a", "r", "y">>,
    <<"r", "e", "f", "e", "r", "e", "n", "c", "e", "s">>,
    <<"b", "i", "b", "l", "i", "o", "g", "r", "a", "p", "h", "y">>,
    <<"a", "c", "k", "n", "o", "w", "l", "e", "d", "g", "e", "m", "e", "n", "t", "s">>,
    <<"a", "p", "p", "e", "n", "d", "i", "x">>,
    <<"U6458", "U8981">>,
    <<"U5F15", "U8A00">>,
    <<"U524D", "U8A00">>,
    <<"U7EEA", "U8BBA">>,
    <<"U7814", "U7A76", "U80CC", "U666F">>,
    <<"U6587", "U732E", "U7EFC", "U8FF0">>,
    <<"U65B9", "U6CD5">>,
    <<"U6750", "U6599", "U4E0E", "U65B9", "U6CD5">>,
    <<"U5B9E", "U9A8C">>,
    <<"U7ED3", "U679C">>,
    <<"U8BA8", "U8BBA">>,
    <<"U7ED3", "U8BBA">>,
    <<"U53C2", "U8003", "U6587", "U732E">>,
    <<"U81F4", "U8C22">>,
    <<"U9644", "U5F55">> }

RECURSIVE NumberToString(_)
\* `${n}`
NumberToString(n) ==
  IF n < 10 THEN <<DigitChars[n + 1]>>
  ELSE NumberToString(n \div 10) \o <<DigitChars[(n % 10) + 1]>>

\* `Part ${n}`
PartTitleOf(n) == <<"P", "a", "r", "t", " ">> \o NumberToString(n)

FullDocumentTitle == <<"F", "u", "l", "l", " ", "D", "o", "c", "u", "m", "e", "n", "t">>

\* ^ under the flag m at the 0-based position p
AtLineStart(s, p) == p = 0 \/ s[p] \in LineTerminators

\* where .* stops when it starts at the 0-based position p
LineEnd(s, p) ==
  LET stops == {j \in (p + 1)..Len(s) : s[j] \in LineTerminators}
  IN IF stops = {} THEN Len(s) ELSE SetMin(stops) - 1

\* one of academicSections stands at the 0-based position p
KeywordAt(s, p) ==
  \E kw \in academicSections :
    /\ p + Len(kw) <= Len(s)
    /\ \A j \in 1..Len(kw) : Lower(s[p + j]) = kw[j]

\* ^#+\s+.* tried at p: the end of the match, -1 when there is none
HeadingMatchEnd(s, p) ==
  LET n == RunLength(s, p + 1, {HASH})
      w == RunLength(s, p + n + 1, WhiteSpace)
  IN IF n >= 1 /\ w >= 1 THEN LineEnd(s, p + n + w) ELSE -1

\* ^(?:\d+\.?\s*)?(?:academicSections).*$ tried at p
SectionMatchEnd(s, p) ==
  LET d == RunLength(s, p + 1, Digits)
      dot == IF d >= 1 /\ p + d + 1 <= Len(s) /\ s[p + d + 1] = "." THEN 1 ELSE 0
      w == IF d >= 1 THEN RunLength(s, p + d + dot + 1, WhiteSpace) ELSE 0
      k == p + d + dot + w
  IN IF KeywordAt(s, k) THEN LineEnd(s, k) ELSE -1

\* sectionRegex tried at p
sectionRegexEnd(s, p) ==
  IF ~AtLineStart(s, p) THEN -1
  ELSE IF HeadingMatchEnd(s, p) # -1 THEN HeadingMatchEnd(s, p)
  ELSE SectionMatchEnd(s, p)

RECURSIVE SplitSections(_, _)
\* trimmedContent.split(sectionRegex) from the 0-based position p on: the
\* text before a match, the match (the capture group), and so on
SplitSections(s, p) ==
  LET starts == {q \in p..(Len(s) - 1) : sectionRegexEnd(s, q) # -1}
  IN IF starts = {} THEN <<Substring(s, p, Len(s))>>
     ELSE LET q == SetMin(starts)
              e == sectionRegexEnd(s, q)
          IN <<Substring(s, p, q), Substring(s, q, e)>> \o SplitSections(s, e)

\* rawTitle.replace(/^#+\s*/, '')
StripHashes(s) ==
  LET n == RunLength(s, 1, {HASH})
      w == RunLength(s, n + 1, WhiteSpace)
  IN IF n >= 1 THEN SubSeq(s, n + w + 1, Len(s)) ELSE s

\* .replace(/^\d+\.?\s*/, '')
StripNumber(s) ==
  LET d == RunLength(s, 1, Digits)
      dot == IF d >= 1 /\ d + 1 <= Len(s) /\ s[d + 1] = "." THEN 1 ELSE 0
      w == RunLength(s, d + dot + 1, WhiteSpace)
  IN IF d >= 1 THEN SubSeq(s, d + dot + w + 1, Len(s)) ELSE s

RECURSIVE HeadedChunks(_, _)
\* for (let i = 1; i < rawChunks.length; i += 2): a section with content
\* becomes a chunk; k is the 1-based position of rawChunks[i]
HeadedChunks(rawChunks, k) ==
  IF k > Len(rawChunks) THEN <<>>
  ELSE LET rawTitle == Trim(rawChunks[k])
           title == Trim(StripNumber(StripHashes(rawTitle)))
           content == IF k + 1 <= Len(rawChunks) THEN Trim(rawChunks[k + 1]) ELSE <<>>
       IN (IF content # <<>>
           THEN <<[title |-> title, rawTitle |-> rawTitle, content |-> content]>>
           ELSE <<>>) \o HeadedChunks(rawChunks, k + 2)

RECURSIVE SplitBlankLines(_)
\* s.split(/\n\s*\n/): a cut runs from a line feed to the last line feed of
\* the white space that follows it
SplitBlankLines(s) ==
  LET lastLF(k) ==
        LET w == RunLength(s, k + 1, WhiteSpace)
            lfs == {j \in (k + 1)..(k + w) : s[j] = LF}
        IN IF lfs = {} THEN 0 ELSE CHOOSE j \in lfs : \A h \in lfs : j >= h
      cuts == {k \in 1..Len(s) : s[k] = LF /\ lastLF(k) # 0}
  IN IF cuts = {} THEN <<s>>
     ELSE LET b == SetMin(cuts)
          IN <<SubSeq(s, 1, b - 1)>> \o SplitBlankLines(SubSeq(s, lastLF(b) + 1, Len(s)))

\* s.lastIndexOf(sub, fromIndex), 0-based, -1 when absent
LastIndexOfFrom(s, sub, fromIndex) ==
  LET hits == {k \in 0..Min(fromIndex, Len(s) - Len(sub)) :
                 SubSeq(s, k + 1, k + Len(sub)) = sub}
  IN IF hits = {} THEN -1 ELSE CHOOSE k \in hits : \A h \in hits : k >= h

\* where the window that starts at `start` is cut
WindowBoundary(s, start) ==
  LET end == Min(start + MAX_CHUNK_CHAR, Len(s))
      atBreak == LastIndexOfFrom(s, <<LF, LF>>, end)
      atLine == LastIndexOfFrom(s, <<LF>>, end)
  IN IF atBreak > start THEN atBreak
     ELSE IF atLine > start THEN atLine
     ELSE end

RECURSIVE WindowChunks(_, _, _)
\* the while loop of the character-window fallback; n parts were pushed
WindowChunks(s, start, n) ==
  IF start >= Len(s) THEN <<>>
  ELSE LET boundary == WindowBoundary(s, start)
           segment == Trim(Substring(s, start, boundary))
           next == IF boundary < Len(s) THEN boundary + 1 ELSE boundary
       IN IF segment # <<>>
          THEN <<[title |-> PartTitleOf(n + 1), rawTitle |-> PartTitleOf(n + 1),
                  content |-> segment]>> \o WindowChunks(s, next, n + 1)
          ELSE WindowChunks(s, next, n)

\* the paragraph-group fallback: every PARAGRAPHS_PER_CHUNK paragraphs, each
\* followed by '\n\n', make one chunk
ParagraphChunks(paragraphs) ==
  LET n == Len(paragraphs)
      groups == (n + PARAGRAPHS_PER_CHUNK - 1) \div PARAGRAPHS_PER_CHUNK
      group(g) == SubSeq(paragraphs, PARAGRAPHS_PER_CHUNK * (g - 1) + 1,
                         Min(PARAGRAPHS_PER_CHUNK * g, n))
      joined(ps) == Flatten([k \in 1..Len(ps) |-> ps[k] \o <<LF, LF>>])
  IN [g \in 1..groups |->
        [title |-> PartTitleOf(g), rawTitle |-> PartTitleOf(g),
         content |-> Trim(joined(group(g)))]]

chunkDocument(content) ==
  LET trimmedContent == Trim(ReplaceCRLF(content))
      chunked == HeadedChunks(SplitSections(trimmedContent, 0), 2)
      paragraphs == SelectSeq(SplitBlankLines(trimmedContent), LAMBDA p : Trim(p) # <<>>)
      parts == WindowChunks(trimmedContent, 0, 0)
  IN IF trimmedContent = <<>> THEN <<>>
     ELSE IF Len(chunked) > 1 THEN chunked
     ELSE IF Len(paragraphs) <= 1
     THEN (IF Len(parts) > 0 THEN parts
           ELSE <<[title |-> FullDocumentTitle, rawTitle |-> FullDocumentTitle,
                   content |-> trimmedContent]>>)
     ELSE ParagraphChunks(paragraphs)

MergedMark == <<"M", "e", "r", "g", "e", "d">>

\* a merge condition that leaves out the size of the joined chunk
CanMergeAnySize(tempChunk, current) ==
  Len(tempChunk.content) < MIN_CHUNK_SIZE

\* tempChunk.content.length < MIN_CHUNK_SIZE && wouldMergeLen <= MAX_CHUNK_CHAR
CanMerge(tempChunk, current) ==
  LET wouldMergeLen == Len(tempChunk.content) + 2 + Len(current.content)
  IN Len(tempChunk.content) < MIN_CHUNK_SIZE /\ wouldMergeLen <= MAX_CHUNK_CHAR

RECURSIVE MergeFrom(_, _, _, _)
\* the loop of mergeSmallChunks; k is the 1-based position of chunks[i]
MergeFrom(chunkList, k, tempChunk, merged) ==
  IF k > Len(chunkList) THEN Append(merged, tempChunk)
  ELSE LET current == chunkList[k]
       IN IF CanMerge(tempChunk, current)
          THEN MergeFrom(chunkList, k + 1,
                 [tempChunk EXCEPT
                    !.content = @ \o <<LF, LF>> \o current.content,
                    !.title = IF Includes(@, MergedMark) THEN @
                              ELSE @ \o <<" ", "+", " ">> \o current.title],
                 merged)
          ELSE MergeFrom(chunkList, k + 1, current, Append(merged, tempChunk))

mergeSmallChunks(chunkList) ==
  IF Len(chunkList) <= 1 THEN chunkList
  ELSE SelectSeq(MergeFrom(chunkList, 2, chunkList[1], <<>>),
                 LAMBDA c : Trim(c.content) # <<>>)

\* if (chunks.length === 0) chunks.push({title: 'Full Document', ...})
ChunksOrFullDocument(chunkList, draft) ==
  IF Len(chunkList) = 0
  THEN <<[title |-> FullDocumentTitle, rawTitle |-> FullDocumentTitle, content |-> draft]>>
  ELSE chunkList

\* -- chunkDocument and mergeSmallChunks on their own -----------------------
MaxDraftLen == 5

DraftAlphabet == {"a", HASH, SP, LF, "U65B9", "U6CD5"}

\* a line of n code units without white space
Line(c, n) == Repeat(c, n)

\* drafts with a preamble and headed sections, with numbered and keyword
\* headings, with sections small and large enough for the merge pass, with
\* seven paragraphs, and without any line break beyond the window size
LongDrafts ==
  { <<"a", "a", LF, LF, HASH, SP, "A", LF, "b", "b", CJKStop, LF,
      HASH, SP, "B", LF, "c", "c", CJKStop>>,
    <<"1", ".", SP, "R", "e", "s", "u", "l", "t", "s", LF, "b", "b", LF,
      "2", SP, "U7ED3", "U8BBA", LF, "c", "c">>,
    <<HASH, SP, "A", LF>> \o Line("b", MIN_CHUNK_SIZE) \o <<LF, HASH, SP, "B", LF, "c", "c">>,
    <<HASH, SP, "A", LF, "b", LF, HASH, SP, "B", LF, HASH, SP, "C", LF, "c">>,
    <<"a", LF, LF, "b", LF, LF, "c", LF, LF, "d", LF, LF, "e", LF, LF, "f", LF, LF, "g">>,
    Line("a", MAX_CHUNK_CHAR + 1),
    Line("a", MAX_CHUNK_CHAR - 10) \o <<LF>> \o Line("b", 20) }

ChunkDrafts == (UNION {[1..n -> DraftAlphabet] : n \in 0..MaxDraftLen}) \cup LongDrafts

InitChunk ==
  /\ fpc = "in"
  /\ text \in ChunkDrafts
  /\ standardText = <<>>
  /\ toks = <<>>
  /\ repls = <<>>
  /\ validIdx = {}
  /\ result = <<>>
  /\ WfIdle

\* let chunks = chunkDocument(draftPaperContent)
ChunkDocument ==
  /\ fpc = "in"
  /\ result' = chunkDocument(text)
  /\ fpc' = "chunked"
  /\ UNCHANGED <<text, standardText, toks, repls, validIdx, wfVars>>

\* chunks = mergeSmallChunks(chunks)
MergeSmallChunks ==
  /\ fpc = "chunked"
  /\ result' = mergeSmallChunks(result)
  /\ fpc' = "merged"
  /\ UNCHANGED <<text, standardText, toks, repls, validIdx, wfVars>>

\* an empty chunk list is replaced by one chunk holding the draft
FullDocumentFallback ==
  /\ fpc = "merged"
  /\ result' = ChunksOrFullDocument(result, text)
  /\ fpc' = "chunks"
  /\ UNCHANGED <<text, standardText, toks, repls, validIdx, wfVars>>

NextChunk == ChunkDocument \/ MergeSmallChunks \/ FullDocumentFallback

SpecChunk == InitChunk /\ [][NextChunk]_vars

\* the code units of s that are not white space, in order
NonBlank(s) == SelectSeq(s, LAMBDA c : c \notin WhiteSpace)

\* the chunk contents one after the other
ChunkContents(chunkList) == Flatten([k \in 1..Len(chunkList) |-> chunkList[k].content])

\* C11: the contents of the chunks chunkDocument and mergeSmallChunks return
\* hold, in order, every code unit of the draft that is not white space:
\* no preamble, heading line, section or character is missing.
C11_ChunksKeepContent ==
  fpc = "merged" => NonBlank(ChunkContents(result)) = NonBlank(text)

\* ------------------------------------------------------------------------
\* The scheduler under a service that answers every request in full
\* ------------------------------------------------------------------------
DriftSentences == 51

\* the replacement the service gives for the sentence with this index
ReplyText(index) == IF index % 2 = 0 THEN NewText ELSE AltText

\* the response that replaces every sentence of the request
CanonicalReply(request) ==
  [k \in 1..Len(request) |-> [index |-> request[k].index, text |-> ReplyText(request[k].index)]]

\* one chunk with enough sentences for the batch size to go down the chain
\* and up again, and two headed sections of which the first has
\* MIN_CHUNK_SIZE code units, so that it stays unmerged
DriftDrafts ==
  { <<[title |-> PartTitle, content |-> Sentences(DriftSentences)]>>,
    <<[title |-> <<"A">>, content |-> LongSentence(200) \o LongSentence(200)],
      [title |-> <<"B">>, content |-> Sentences(2)]>> }

\* the run stands at the chunk loop with one of `drafts`, style guide and
\* context in hand
InitAtChunkLoop(drafts) ==
  /\ FnIdle
  /\ mode = "sentenceEdits"
  /\ summaryDefined = TRUE
  /\ chunks \in drafts
  /\ upstreamFails = {}
  /\ styleGuide = "extracted"
  /\ documentContext = "generated"
  /\ i = 0
  /\ pc = "forLoop"
  /\ tokens = <<>>
  /\ state = FreshState
  /\ currentIndex = 0
  /\ batchEnd = 0
  /\ batchNumber = 0
  /\ currentBatch = <<>>
  /\ retryCount = 0
  /\ singlePos = 0
  /\ inflight = <<>>
  /\ rewrittenContent = <<>>
  /\ rewrittenConservative = <<>>
  /\ rewrittenStandard = <<>>
  /\ rewrittenEnhanced = <<>>
  /\ totalFailedSentences = 0
  /\ failedChunks = <<>>
  /\ progress = [stage |-> "chunking"]
  /\ analysisReport = Undefined
  /\ migrationResult = Undefined
  /\ served = {}
  /\ foreign = {}
  /\ chunkCalls = [ok |-> 0, failed |-> 0]
  /\ unrewritten = {}
  /\ thrown = 0
  /\ segments = <<>>
  /\ lastOutcome = "none"
  /\ recent = <<>>
  /\ cutOff = {}
  /\ lastFresh = -1
  /\ prevSize = 0

InitDrift == InitAtChunkLoop(DriftDrafts)

\* the batch request returned, after any duration, with every sentence replaced
BatchSuccessInFull ==
  /\ pc = "awaitBatch"
  /\ \E durationMs \in Durations :
       BatchSuccessWith(durationMs,
                        [kind |-> "ok", replacements |-> CanonicalReply(currentBatch)])

NextDrift ==
  \/ BeginChunk
  \/ SubmitBatch
  \/ BatchSuccessInFull
  \/ BatchProgress
  \/ FinishChunk
  \/ ChunkProgress
  \/ GenerateReport

SpecDrift == InitDrift /\ [][NextDrift]_vars

\* ------------------------------------------------------------------------
\* Properties of the scheduler: requests, order, drift, failures
\* ------------------------------------------------------------------------

\* C12: at most one request to the rewriting service is in flight at any
\* time, and none while the run stands between two requests, two batches or
\* two chunks: a request goes out only after the one before has settled, and
\* a chunk starts only after the chunk before is done.
C12_OneInFlight ==
  /\ Len(inflight) <= 1
  /\ pc \in {"start", "forLoop", "whileLoop", "batchProgress", "chunkProgress",
             "done", "aborted"} => inflight = <<>>

\* the second single-sentence request of a fallback is in flight
C12_Witness ==
  /\ pc = "awaitSingle"
  /\ singlePos >= 2
  /\ inflight = <<SentenceRequest(<<currentBatch[singlePos]>>)>>

StrictlyIncreasing(sentences) ==
  \A k \in 1..(Len(sentences) - 1) : sentences[k].index < sentences[k + 1].index

\* C13: the indices inside every request are strictly increasing, and every
\* batch the while loop slices starts at the index right after the last index
\* of the batch it sliced before (at 0 in a new chunk), whatever the batch
\* size has become.
C13_AscendingOrder ==
  [][/\ \A k \in 1..Len(inflight') :
          inflight'[k].kind = "sentences" => StrictlyIncreasing(inflight'[k].sentences)
     /\ batchNumber' = batchNumber + 1 => currentBatch'[1].index = lastFresh + 1]_vars

\* the second batch of a chunk is in flight after the batch size went down
C13_Witness ==
  /\ pc = "awaitBatch"
  /\ batchNumber = 2
  /\ state.currentBatchSize = 10
  /\ currentBatch[1].index = INITIAL_BATCH_SIZE

\* C14: with a service that gives every sentence index its fixed replacement,
\* the rebuilt chunk is the token list with every sentence replaced by that
\* replacement, in token order, whatever durations the calls took and
\* whatever batch sizes they led to: any two such runs give the same text.
C14_DriftSameText ==
  ChunkReturned => rewrittenContent = rebuildText(tokens, CanonicalReply(sentenceTokens))

\* a chunk finished in more batches than the initial batch size needs
C14_Witness ==
  /\ ChunkReturned
  /\ Len(sentenceTokens) = DriftSentences
  /\ batchNumber > (DriftSentences + INITIAL_BATCH_SIZE - 1) \div INITIAL_BATCH_SIZE
  /\ state.currentBatchSize # INITIAL_BATCH_SIZE

C16_DefaultsSurfaced ==
  (analysisReport.defined /\ (styleGuide = "default" \/ documentContext = "default")) =>
    analysisReport.status # "complete"

\* C19: after a failed batch request only the first half of the failing batch
\* is resent, at most MAX_RETRY_PER_BATCH times per batch, and when the chunk
\* is done every sentence a halving cut off has been sent in a request of its
\* own.
C19_HalvedThenSingles ==
  [][/\ (pc = "awaitBatch" /\ pc' = "awaitBatch") =>
          /\ Len(currentBatch) > 1
          /\ retryCount' <= MAX_RETRY_PER_BATCH
          /\ currentBatch' = SubSeq(currentBatch, 1, Len(currentBatch) \div 2)
          /\ inflight' = <<SentenceRequest(currentBatch')>>
     /\ ChunkReturned' => cutOff' = {}]_vars

\* C20: currentBatchSize is always one of the values of the degradation
\* chain, so at least 1 and at most MAX_BATCH_SIZE, and a chunk starts with
\* INITIAL_BATCH_SIZE whatever size the chunk before ended with.
C20_BatchSizeInChain ==
  [][/\ state'.currentBatchSize \in Range(DEGRADATION_CHAIN)
     /\ state'.currentBatchSize >= 1
     /\ state'.currentBatchSize <= MAX_BATCH_SIZE
     /\ (pc = "forLoop" /\ pc' = "whileLoop") =>
          state'.currentBatchSize = INITIAL_BATCH_SIZE]_vars

\* the second chunk starts after the first ended with a degraded batch size
C20_Witness ==
  /\ pc = "whileLoop"
  /\ i = 1
  /\ batchNumber = 0
  /\ prevSize \in {1, 5, 10}
  /\ state.currentBatchSize = INITIAL_BATCH_SIZE

\* ------------------------------------------------------------------------
\* Paragraph breaks of a rebuilt chunk
\* ------------------------------------------------------------------------

\* replacement texts with line breaks at their ends
BreakTexts == { <<"r">>, <<"r", LF>>, <<LF, "s">>, <<"r", LF, LF, "s">> }

BreakReplacements == [index : 0..MaxReplIndex, text : BreakTexts]

BreakLists == UNION {[1..n -> BreakReplacements] : n \in 0..MaxRepl}

\* the chunk is tokenized; validIndices are the indices of its sentence tokens
InitBreaks ==
  /\ fpc = "tokenized"
  /\ text \in RebuildTexts
  /\ standardText = <<>>
  /\ toks = tokenizeDocument(text)
  /\ repls \in BreakLists
  /\ validIdx = IndicesOf(getSentenceTokens(toks))
  /\ result = <<>>
  /\ WfIdle

NextBreaks == Validate \/ RebuildValid

SpecBreaks == InitBreaks /\ [][NextBreaks]_vars

RECURSIVE CountBreaksFrom(_, _)
\* the occurrences of "\n\n" in s from position k on, counted from left to
\* right without overlap
CountBreaksFrom(s, k) ==
  IF k + 1 > Len(s) THEN 0
  ELSE IF SubSeq(s, k, k + 1) = ParagraphSeparator
       THEN 1 + CountBreaksFrom(s, k + 2)
       ELSE CountBreaksFrom(s, k + 1)

SeparatorCount(tokenList) ==
  Cardinality({k \in 1..Len(tokenList) : tokenList[k].kind = "sep"})

\* C17: the text rebuilt from the replacements that passed validateReplacements
\* has exactly as many paragraph breaks "\n\n" as the token list has separator
\* tokens.
C17_BreaksPreserved ==
  fpc = "rebuiltValid" => CountBreaksFrom(result, 1) = SeparatorCount(toks)

\* ------------------------------------------------------------------------
\* utils/analysis/text.ts: splitSentencesCN
\* ------------------------------------------------------------------------

\* the parts splitSentencesCN keeps: trimmed, not empty, no Markdown heading,
\* at least two code units
KeptParts(parts) ==
  SelectSeq([k \in 1..Len(parts) |-> Trim(parts[k])],
            LAMBDA t : t # <<>> /\ ~IsHeading(t) /\ Len(t) >= 2)

splitSentencesCN(t) ==
  LET kept == KeptParts(SplitAfter(normalizeText(t), SentenceEnders))
  IN [k \in 1..Len(kept) |-> [text |-> kept[k], index |-> k - 1]]

\* ------------------------------------------------------------------------
\* utils/analysis/fidelity.ts
\* ------------------------------------------------------------------------
DOT == "."
PERCENT == "%"
HYPHEN == "-"

Uppers == Range(UpperLetters)
Lowers == Range(LowerLetters)
Letters == Uppers \cup Lowers
\* \w
WordChars == Letters \cup Digits \cup {"_"}

\* (?:mm|cm|m|km|mg|g|kg|ml|L|℃|°C|Hz|kHz|MHz|GHz|ms|s|min|h) under flag i,
\* in the order the alternatives are tried, in lower case
units ==
  << <<"m", "m">>, <<"c", "m">>, <<"m">>, <<"k", "m">>, <<"m", "g">>, <<"g">>,
     <<"k", "g">>, <<"m", "l">>, <<"l">>, <<"U2103">>, <<"U00B0", "c">>,
     <<"h", "z">>, <<"k", "h", "z">>, <<"m", "h", "z">>, <<"g", "h", "z">>,
     <<"m", "s">>, <<"s">>, <<"m", "i", "n">>, <<"h">> >>

\* match.toLowerCase()
toLowerCase(s) == [k \in 1..Len(s) |-> Lower(s[k])]

\* \d+\.?\d* from position k, every part as long as it can be: the position
\* after it, 0 when s[k] is no digit. What follows in the patterns starts
\* with neither a digit nor a point, so no shorter parse can match.
NumberEnd(s, k) ==
  LET d1 == RunLength(s, k, Digits)
      afterInt == k + d1
  IN IF d1 = 0 THEN 0
     ELSE IF afterInt <= Len(s) /\ s[afterInt] = DOT
          THEN afterInt + 1 + RunLength(s, afterInt + 1, Digits)
          ELSE afterInt

\* /\d+\.?\d*%/ at position k: the position after the match, 0 without one
PercentEnd(s, k) ==
  LET e == NumberEnd(s, k)
  IN IF e # 0 /\ e <= Len(s) /\ s[e] = PERCENT THEN e + 1 ELSE 0

\* /\d+\.?\d*[eE][+-]?\d+/ at position k
ScientificEnd(s, k) ==
  LET e == NumberEnd(s, k)
      signed == e + 1 <= Len(s) /\ s[e + 1] \in {"+", HYPHEN}
      q == IF signed THEN e + 2 ELSE e + 1
      d == RunLength(s, q, Digits)
  IN IF e # 0 /\ e <= Len(s) /\ s[e] \in {"e", "E"} /\ d >= 1 THEN q + d ELSE 0

\* unit number j stands at position e, letter case aside
UnitAt(s, e, j) ==
  /\ e + Len(units[j]) - 1 <= Len(s)
  /\ \A x \in 1..Len(units[j]) : Lower(s[e + x - 1]) = units[j][x]

\* /\d+\.?\d*(?:mm|cm|...|h)/i at position k: the first alternative that
\* stands there ends the match
UnitEnd(s, k) ==
  LET e == NumberEnd(s, k)
      found == {j \in 1..Len(units) : UnitAt(s, e, j)}
  IN IF e = 0 \/ found = {} THEN 0 ELSE e + Len(units[SetMin(found)])

\* /\d+\.\d+/ at position k
DecimalEnd(s, k) ==
  LET d1 == RunLength(s, k, Digits)
      p == k + d1
      d2 == RunLength(s, p + 1, Digits)
  IN IF d1 >= 1 /\ p <= Len(s) /\ s[p] = DOT /\ d2 >= 1 THEN p + 1 + d2 ELSE 0

\* /\d{2,}/ at position k
IntegerEnd(s, k) ==
  LET d1 == RunLength(s, k, Digits)
  IN IF d1 >= 2 THEN k + d1 ELSE 0

\* the patterns of extractNumbers, in order
NumberPatternEnd(p, s, k) ==
  CASE p = 1 -> PercentEnd(s, k)
    [] p = 2 -> ScientificEnd(s, k)
    [] p = 3 -> UnitEnd(s, k)
    [] p = 4 -> DecimalEnd(s, k)
    [] p = 5 -> IntegerEnd(s, k)

NumberPatterns == 5

\* \b before the word character at position k
BoundaryBefore(s, k) == k = 1 \/ s[k - 1] \notin WordChars

\* \b at position e, after a word character
BoundaryAfter(s, e) == e > Len(s) \/ s[e] \notin WordChars

\* /\b[A-Z]{2,}\d*\b/ at position k
AllCapsEnd(s, k) ==
  LET u == RunLength(s, k, Uppers)
      e == k + u + RunLength(s, k + u, Digits)
  IN IF u >= 2 /\ BoundaryBefore(s, k) /\ BoundaryAfter(s, e) THEN e ELSE 0

\* /\b[A-Z][a-zA-Z]*[A-Z][a-zA-Z]*\d*\b/ at position k
CamelCaseEnd(s, k) ==
  LET l == RunLength(s, k, Letters)
      e == k + l + RunLength(s, k + l, Digits)
  IN IF /\ l >= 2
        /\ s[k] \in Uppers
        /\ \E j \in (k + 1)..(k + l - 1) : s[j] \in Uppers
        /\ BoundaryBefore(s, k)
        /\ BoundaryAfter(s, e)
     THEN e ELSE 0

\* /\b[A-Z][a-z]+(?:-[A-Z0-9][a-zA-Z0-9]*)?\b/ at position k: with the
\* suffix when a word boundary follows it, else without
ProperNounEnd(s, k) ==
  LET lo == RunLength(s, k + 1, Lowers)
      a == k + 1 + lo
      suffixed == /\ a + 1 <= Len(s)
                  /\ s[a] = HYPHEN
                  /\ s[a + 1] \in Uppers \cup Digits
      g == a + 1 + RunLength(s, a + 1, Letters \cup Digits)
  IN IF s[k] \notin Uppers \/ lo = 0 \/ ~BoundaryBefore(s, k) THEN 0
     ELSE IF suffixed /\ BoundaryAfter(s, g) THEN g
     ELSE IF BoundaryAfter(s, a) THEN a
     ELSE 0

\* the patterns of extractAcronyms, in order
AcronymPatternEnd(p, s, k) ==
  CASE p = 1 -> AllCapsEnd(s, k)
    [] p = 2 -> CamelCaseEnd(s, k)
    [] p = 3 -> ProperNounEnd(s, k)

AcronymPatterns == 3

RECURSIVE NumberMatchesFrom(_, _, _)
\* text.match(pattern) || [] under flag g: the matches from left to right,
\* the search going on where the last match ended
NumberMatchesFrom(p, s, k) ==
  IF k > Len(s) THEN <<>>
  ELSE LET e == NumberPatternEnd(p, s, k)
       IN IF e = 0 THEN NumberMatchesFrom(p, s, k + 1)
          ELSE <<SubSeq(s, k, e - 1)>> \o NumberMatchesFrom(p, s, e)

RECURSIVE AcronymMatchesFrom(_, _, _)
AcronymMatchesFrom(p, s, k) ==
  IF k > Len(s) THEN <<>>
  ELSE LET e == AcronymPatternEnd(p, s, k)
       IN IF e = 0 THEN AcronymMatchesFrom(p, s, k + 1)
          ELSE <<SubSeq(s, k, e - 1)>> \o AcronymMatchesFrom(p, s, e)

\* s.replace(/\.0+$/, '')
StripPointZeros(s) ==
  LET hits == {p \in 1..(Len(s) - 1) :
                 s[p] = DOT /\ \A j \in (p + 1)..Len(s) : s[j] = "0"}
  IN IF hits = {} THEN s ELSE SubSeq(s, 1, SetMin(hits) - 1)

RECURSIVE AddAll(_, _)
\* set.add(item) for every item: a Set keeps the order of first insertion
AddAll(set, items) ==
  IF items = <<>> THEN set
  ELSE AddAll(IF Head(items) \in Range(set) THEN set ELSE Append(set, Head(items)),
              Tail(items))

RECURSIVE ExtractNumbersFrom(_, _, _)
\* the loop over the patterns of extractNumbers
ExtractNumbersFrom(s, p, numbers) ==
  IF p > NumberPatterns THEN numbers
  ELSE LET matches == NumberMatchesFrom(p, s, 1)
           normalized == [k \in 1..Len(matches) |->
                            StripPointZeros(toLowerCase(matches[k]))]
       IN ExtractNumbersFrom(s, p + 1, AddAll(numbers, normalized))

\* the Set of extractNumbers, as the sequence of its elements in insertion order
extractNumbers(s) == ExtractNumbersFrom(s, 1, <<>>)

\* /^(The|This|That|These|Those|With|From|Into|Upon)$/
CommonWords ==
  { <<"T", "h", "e">>, <<"T", "h", "i", "s">>, <<"T", "h", "a", "t">>,
    <<"T", "h", "e", "s", "e">>, <<"T", "h", "o", "s", "e">>,
    <<"W", "i", "t", "h">>, <<"F", "r", "o", "m">>, <<"I", "n", "t", "o">>,
    <<"U", "p", "o", "n">> }

RECURSIVE ExtractAcronymsFrom(_, _, _)
\* the loop over the patterns of extractAcronyms
ExtractAcronymsFrom(s, p, acronyms) ==
  IF p > AcronymPatterns THEN acronyms
  ELSE LET matches == AcronymMatchesFrom(p, s, 1)
           technical == SelectSeq(matches, LAMBDA m : Len(m) >= 2 /\ m \notin CommonWords)
       IN ExtractAcronymsFrom(s, p + 1, AddAll(acronyms, technical))

extractAcronyms(s) == ExtractAcronymsFrom(s, 1, <<>>)

\* Math.round(x / y): the nearest integer, halves upwards
RoundDiv(x, y) == (2 * x + y) \div (2 * y)

\* calculateRetentionRate, in tenths of a per cent:
\* Math.round((retained / original.size) * 100 * 10) is this integer, and the
\* function returns it divided by 10
calculateRetentionRate(original, rewritten) ==
  IF Len(original) = 0 THEN 100 * 10
  ELSE LET retained == Cardinality({k \in 1..Len(original) : original[k] \in Range(rewritten)})
       IN RoundDiv(retained * 100 * 10, Len(original))

findMissingItems(original, rewritten) ==
  SelectSeq(original, LAMBDA item : item \notin Range(rewritten))

findSentenceIndex(t, token) ==
  LET sentences == splitSentencesCN(t)
      hits == {k \in 1..Len(sentences) : Includes(sentences[k].text, token)}
  IN IF hits = {} THEN -1 ELSE sentences[SetMin(hits)].index

AlertLimit == 5

MissingNumber ==
  <<"M", "i", "s", "s", "i", "n", "g", " ", "n", "u", "m", "b", "e", "r", ":", " ">>

MissingAcronym ==
  <<"M", "i", "s", "s", "i", "n", "g", " ", "a", "c", "r", "o", "n", "y", "m", ":", " ">>

\* the alerts for missing.slice(0, 5)
AlertsFor(draft, missing, type, prefix) ==
  LET shown == SubSeq(missing, 1, Min(AlertLimit, Len(missing)))
  IN [k \in 1..Len(shown) |->
        [type |-> type,
         sentenceIndex |-> findSentenceIndex(draft, shown[k]),
         detail |-> prefix \o shown[k]]]

calculateFidelityGuardrails(draft, standard) ==
  LET draftNumbers == extractNumbers(draft)
      standardNumbers == extractNumbers(standard)
      draftAcronyms == extractAcronyms(draft)
      standardAcronyms == extractAcronyms(standard)
  IN [numberRetentionRate |-> calculateRetentionRate(draftNumbers, standardNumbers),
      acronymRetentionRate |-> calculateRetentionRate(draftAcronyms, standardAcronyms),
      alerts |->
        AlertsFor(draft, findMissingItems(draftNumbers, standardNumbers),
                  "number_loss", MissingNumber)
          \o AlertsFor(draft, findMissingItems(draftAcronyms, standardAcronyms),
                       "acronym_change", MissingAcronym)]

\* ------------------------------------------------------------------------
\* calculateFidelityGuardrails on drafts with the number 35.7%
\* ------------------------------------------------------------------------
MaxRewrittenParts == 2

Target == <<"3", "5", DOT, "7", PERCENT>>

\* what stands around the number in the draft
DraftParts ==
  { <<>>,
    <<"a", CJKStop>>,
    <<"A", "B", SP>>,
    <<"1", "2", SP>>,
    <<"5", "m", SP>>,
    <<"1", "e", "5", SP>>,
    <<"2", DOT, "0", SP>>,
    <<"R", "e", "s", HYPHEN, "5", "0", SP>> }

FidelityDrafts == {p \o Target \o <<SP>> \o s : p, s \in DraftParts}

\* what the rewritten text is made of: the parts of the draft and pieces of
\* the number
RewrittenParts ==
  DraftParts \cup { <<"3", "5", DOT, "7">>, <<"3", "5", SP>>, <<PERCENT>> }

RewrittenTexts ==
  {t \in {Flatten(parts) : parts \in UNION {[1..n -> RewrittenParts] : n \in 0..MaxRewrittenParts}} :
     ~Includes(t, Target)}

InitFidelity ==
  /\ fpc = "drafted"
  /\ text \in FidelityDrafts
  /\ standardText \in RewrittenTexts
  /\ toks = <<>>
  /\ repls = <<>>
  /\ validIdx = {}
  /\ result = <<>>
  /\ WfIdle

\* calculateFidelityGuardrails(draftText, standardText)
CalculateFidelityGuardrails ==
  /\ fpc = "drafted"
  /\ result' = calculateFidelityGuardrails(text, standardText)
  /\ fpc' = "guarded"
  /\ UNCHANGED <<text, standardText, toks, repls, validIdx, wfVars>>

NextFidelity == CalculateFidelityGuardrails

SpecFidelity == InitFidelity /\ [][NextFidelity]_vars

NumberLossAlerts(alerts) == SelectSeq(alerts, LAMBDA a : a.type = "number_loss")

\* C18: for a draft with the number 35.7% and a rewritten text without it,
\* calculateFidelityGuardrails returns exactly one alert of type number_loss,
\* that alert's detail names 35.7%, and numberRetentionRate is below 100.
C18_OneNumberLoss ==
  fpc = "guarded" =>
    LET losses == NumberLossAlerts(result.alerts)
    IN /\ Len(losses) = 1
       /\ Includes(losses[1].detail, Target)
       /\ result.numberRetentionRate < 100 * 10

\* ------------------------------------------------------------------------
\* The scheduler with full answers and a bounded number of failed calls
\* ------------------------------------------------------------------------
MaxCallFailures == 1

\* a batch request fails while the run has failures left
BatchFailureBounded ==
  /\ chunkCalls.failed < MaxCallFailures
  /\ BatchFailure

NextFaulty ==
  \/ BeginChunk
  \/ SubmitBatch
  \/ BatchSuccessInFull
  \/ BatchFailureBounded
  \/ BatchProgress
  \/ FinishChunk
  \/ ChunkProgress
  \/ GenerateReport

SpecFaulty == InitDrift /\ [][NextFaulty]_vars

\* ------------------------------------------------------------------------
\* Properties of the batch size
\* ------------------------------------------------------------------------

\* C21: after a successful batch call that took longer than
\* SLOW_CALL_THRESHOLD_MS, currentBatchSize is the next smaller value of the
\* chain (20 to 10, 10 to 5, 5 to 1, 1 stays 1) and consecutiveFastCalls is 0.
C21_SlowDegrades ==
  [][(/\ pc = "awaitBatch"
      /\ lastOutcome' = "ok"
      /\ recent'[Len(recent')] = "slow") =>
       /\ <<state.currentBatchSize, state'.currentBatchSize>>
            \in {<<20, 10>>, <<10, 5>>, <<5, 1>>, <<1, 1>>}
       /\ state'.consecutiveFastCalls = 0]_vars

\* a fourth slow call in a row has found the size at 1 and left it there
C21_Witness ==
  /\ pc = "batchProgress"
  /\ batchNumber = 4
  /\ recent = <<"slow", "slow", "slow">>
  /\ state.currentBatchSize = 1
  /\ state.consecutiveFastCalls = 0

\* C22: currentBatchSize goes up within a chunk only when the three most
\* recent calls of the chunk were all faster than TARGET_FAST_MS, none of
\* them slower, of normal speed or failed; it then goes up exactly one step
\* of the chain (1 to 5, 5 to 10, 10 to 20) and consecutiveFastCalls is 0.
C22_UpgradeAfterThreeFast ==
  [][(pc # "forLoop" /\ state'.currentBatchSize > state.currentBatchSize) =>
       /\ recent' = <<"fast", "fast", "fast">>
       /\ <<state.currentBatchSize, state'.currentBatchSize>>
            \in {<<1, 5>>, <<5, 10>>, <<10, 20>>}
       /\ state'.consecutiveFastCalls = 0]_vars

ProgressSentences == 101

ProgressParagraphs == 4

\* n sentences in paragraphs of equal length, the last one taking the rest
Paragraphs(n, count) ==
  Flatten([k \in 1..count |->
             IF k < count
             THEN Sentences(n \div count) \o ParagraphSeparator
             ELSE Sentences(n - (count - 1) * (n \div count))])

\* one chunk with so many sentences that a batch of one sentence is less
\* than one per cent of it
ProgressDrafts ==
  { <<[title |-> PartTitle, content |-> Paragraphs(ProgressSentences, ProgressParagraphs)]>> }

InitProgress == InitAtChunkLoop(ProgressDrafts)

SpecProgress == InitProgress /\ [][NextDrift]_vars

\* p is x / y rounded to the nearest integer, halves upwards
IsRounded(p, x, y) == 2 * x - y < 2 * y * p /\ 2 * y * p <= 2 * x + y

\* C23: in a chunk with sentence tokens one progress update follows every
\* batch and nothing else changes the progress; the update carries the chunk
\* position and round(100 * currentIndex / number of sentence tokens); each
\* update of a chunk has a higher percentage than the one before, and the
\* chunk ends with 100.
C23_ProgressPerBatch ==
  [][/\ pc \in {"whileLoop", "awaitBatch", "awaitSingle"} => progress' = progress
     /\ pc = "batchProgress" =>
          /\ progress'.stage = "batch"
          /\ IsRounded(progress'.percent, 100 * currentIndex, Len(sentenceTokens))
          /\ progress'.current = i + 1
          /\ progress'.total = Len(chunks)
          /\ progress.stage = "batch" => progress'.percent > progress.percent
     /\ (pc = "whileLoop" /\ pc' = "chunkProgress") => progress.percent = 100]_vars

\* ------------------------------------------------------------------------
\* validateReplacements: what is rejected
\* ------------------------------------------------------------------------

\* the positions of the replacements that have a valid index, a text without
\* paragraph separator, and no accepted replacement of the same index before
\* them
CleanPositions(replacements, valid) ==
  LET ok[k \in 1..Len(replacements)] ==
        /\ replacements[k].index \in valid
        /\ ~Includes(replacements[k].text, ParagraphSeparator)
        /\ ~\E j \in 1..(k - 1) : replacements[j].index = replacements[k].index /\ ok[j]
  IN {k \in 1..Len(replacements) : ok[k]}

\* C24: validateReplacements rejects a replacement only when its index is not
\* valid, when an earlier replacement of the same index was accepted, or when
\* its text contains the paragraph separator; all others are returned in
\* `valid`, unchanged and in input order, also after a rejected replacement
\* of the same index.
C24_RejectsForThreeReasons ==
  fpc = "validated" =>
    result.valid = KeepRange(repls, CleanPositions(repls, validIdx), 1, Len(repls))

\* ------------------------------------------------------------------------
\* tokenizeDocument: where separators stand, how long sentence tokens are
\* ------------------------------------------------------------------------

\* C25: a token list of tokenizeDocument has separator tokens only between
\* sentence tokens: it does not start with a separator, does not end with
\* one, and has no two separators next to each other.
C25_SeparatorsBetween ==
  fpc = "tokenized" =>
    /\ Len(toks) > 0 => toks[1].kind # "sep" /\ toks[Len(toks)].kind # "sep"
    /\ \A k \in 1..(Len(toks) - 1) : ~(toks[k].kind = "sep" /\ toks[k + 1].kind = "sep")

\* t is one trimmed sentence without heading marker, longer than
\* MAX_SENTENCE_CHARS: no line break, no sentence ender before its end
OneLongSentence(t) ==
  /\ Len(t) > MAX_SENTENCE_CHARS
  /\ Trim(t) = t
  /\ ~IsHeading(t)
  /\ \A k \in 1..Len(t) : t[k] \notin {LF, CR}
  /\ \A k \in 1..(Len(t) - 1) : t[k] \notin SentenceEnders

\* C26: every sentence token tokenizeDocument derives from a non-heading
\* sentence longer than MAX_SENTENCE_CHARS has at most FORCE_SPLIT_CHUNK_SIZE
\* code units.
C26_LongSentenceSplit ==
  (fpc = "tokenized" /\ OneLongSentence(text)) =>
    \A k \in 1..Len(toks) : Len(toks[k].text) <= FORCE_SPLIT_CHUNK_SIZE

\* ------------------------------------------------------------------------
\* mergeSmallChunks on headed sections of chosen sizes
\* ------------------------------------------------------------------------
MaxMergeChunks == 3

\* section sizes below, at and above MIN_CHUNK_SIZE, at and above what a
\* chunk of MIN_CHUNK_SIZE - 1 can still be joined with, and above
\* MAX_CHUNK_CHAR
SectionSizes ==
  {1, MIN_CHUNK_SIZE - 1, MIN_CHUNK_SIZE, MAX_CHUNK_CHAR - MIN_CHUNK_SIZE - 1,
   MAX_CHUNK_CHAR - MIN_CHUNK_SIZE, MAX_CHUNK_CHAR + 1}

\* the k-th section: a heading line and one line of `size` code units
Section(k, size) == <<HASH, SP, UpperLetters[k], LF>> \o Line(LowerLetters[k], size) \o <<LF>>

SectionDrafts ==
  UNION {{Flatten([k \in 1..n |-> Section(k, sizes[k])]) : sizes \in [1..n -> SectionSizes]} :
           n \in 1..MaxMergeChunks}

InitMerge ==
  /\ fpc = "in"
  /\ text \in SectionDrafts
  /\ standardText = <<>>
  /\ toks = <<>>
  /\ repls = <<>>
  /\ validIdx = {}
  /\ result = <<>>
  /\ WfIdle

SpecMerge == InitMerge /\ [][NextChunk]_vars

\* the contents of chunkList[from..to] joined by blank lines
JoinBlank(chunkList, from, to) ==
  Flatten([k \in 1..(2 * (to - from) + 1) |->
             IF k % 2 = 1 THEN chunkList[from + (k \div 2)].content ELSE <<LF, LF>>])

\* C27: in the output of mergeSmallChunks every chunk but the last has at
\* least MIN_CHUNK_SIZE code units or cannot be joined with its successor
\* within MAX_CHUNK_CHAR; a chunk above MAX_CHUNK_CHAR is an input chunk,
\* never a merge; every output chunk is a run of consecutive input chunks
\* joined by blank lines, and the runs together are the input in order.
C27_MergeSmallChunks ==
  fpc = "merged" =>
    LET input == chunkDocument(text)
        n == Len(input)
        m == Len(result)
    IN /\ \A k \in 1..(m - 1) :
            \/ Len(result[k].content) >= MIN_CHUNK_SIZE
            \/ Len(result[k].content) + 2 + Len(result[k + 1].content) > MAX_CHUNK_CHAR
       /\ \A k \in 1..m :
            Len(result[k].content) > MAX_CHUNK_CHAR =>
              \E a \in 1..n : result[k].content = input[a].content
       /\ \A k \in 1..m :
            \E a \in 1..n : \E b \in a..n : result[k].content = JoinBlank(input, a, b)
       /\ (n > 0 => m > 0 /\ JoinBlank(result, 1, m) = JoinBlank(input, 1, n))

\* two chunks below MIN_CHUNK_SIZE were joined, and the joined chunk was
\* left alone because the next join would have passed MAX_CHUNK_CHAR
C27_Witness ==
  /\ fpc = "merged"
  /\ Len(chunkDocument(text)) = 3
  /\ Len(result) = 2
  /\ Len(result[1].content) = 1 + 2 + 1
  /\ Len(result[2].content) = MAX_CHUNK_CHAR + 1

\* the failedCount added up for the first n segments whose chunk is not
\* listed in failedChunks
CountedFailures(n) ==
  LET sum[k \in 0..n] ==
        IF k = 0 THEN 0
        ELSE sum[k - 1] + (IF segments[k].chunk \in Range(failedChunks) THEN 0
                           ELSE segments[k].failedCount)
  IN sum[n]

\* C29: at the head of the chunk loop of runSentenceEditsWorkflow the output
\* holds exactly one segment for each chunk gone through, in chunk order: the
\* original content for a chunk listed in failedChunks, the rewritten content
\* for the others; totalFailedSentences adds up the failedCount of the chunks
\* not listed in failedChunks only. This holds wherever in the iteration an
\* exception was raised, the progress callback included.
C29_OneSegmentPerChunk ==
  (mode = "sentenceEdits" /\ pc = "forLoop") =>
    /\ Len(segments) = i
    /\ \A k \in 1..Len(segments) :
         /\ segments[k].chunk = k
         /\ segments[k].kind = "original" <=> k \in Range(failedChunks)
    /\ totalFailedSentences = CountedFailures(Len(segments))

\* chunkDocument takes the character-window fallback for this content: at
\* most one headed chunk and at most one paragraph
WindowFallback(content) ==
  LET trimmedContent == Trim(ReplaceCRLF(content))
      chunked == HeadedChunks(SplitSections(trimmedContent, 0), 2)
      paragraphs == SelectSeq(SplitBlankLines(trimmedContent), LAMBDA p : Trim(p) # <<>>)
  IN trimmedContent # <<>> /\ Len(chunked) <= 1 /\ Len(paragraphs) <= 1

\* C30: in the character-window fallback of chunkDocument every part has at
\* most MAX_CHUNK_CHAR code units, and the parts hold, in order, every code
\* unit of the text that is not white space, also when a window is cut at
\* the exact size.
C30_WindowKeepsText ==
  (fpc = "chunked" /\ WindowFallback(text)) =>
    /\ \A k \in 1..Len(result) : Len(result[k].content) <= MAX_CHUNK_CHAR
    /\ NonBlank(ChunkContents(result)) = NonBlank(text)

====
